---- MODULE Spec2Model ----
(***************************************************************************)
(* One Python process hosting the LastCron SDK (package lastcron_sdk).     *)
(* The process is either a flow script run directly (python flow_file.py)  *)
(* or the thin launcher orchestrator_wrapper.py.  The model follows the    *)
(* module globals of flow.py, the requests issued through                  *)
(* OrchestratorClient._call, the lines printed locally, and the exit of    *)
(* the interpreter (pending exit status, atexit callbacks).                *)
(*                                                                         *)
(* Text is a sequence of characters; a fixed piece of text of the code is  *)
(* kept as one element.  An optional value is None or Some(v).             *)
(***************************************************************************)
EXTENDS Integers, Sequences, FiniteSets, TLC

\* ------------------------------------------------------------------ bounds
MaxFlows   == 2   \* flows declared in one process
MaxDirect  == 1   \* explicit calls of a flow by the top-level script
MaxUserOps == 2   \* logger and get_block calls made by user functions in one process
MaxCalls   == 1   \* times the call written in the script is made

\* ------------------------------------------------------- optional values
None    == {}
Some(v) == {v}
Val(o)  == CHOOSE v \in o : TRUE

\* ------------------------------------------------------------ environment
EnvNames  == {"ORCH_RUN_ID", "ORCH_TOKEN", "ORCH_API_BASE_URL"}
EnvValues == {None, Some(""), Some("v")}
Truthy(o) == o # None /\ o # Some("")

\* all([run_id, token, api_base])
EnvComplete(e) == \A n \in EnvNames : Truthy(e[n])

\* --------------------------------------------------- the orchestrator side
WorkspaceIds == {100}

\* Endpoints whose requests change nothing in the control flow of the SDK,
\* by the kind of request they serve: runs/{id}/status, runs/{id}/logs and
\* the Blocks of the run.  One of them may be out of reach for the life of
\* the process.
Endpoints == {"status", "log", "block"}
Outages   == {{}} \cup {{e} : e \in Endpoints}

\* Each GET runs/{id} is answered on its own: a transport error, an empty
\* body, or the details of the run.
DetailsAnswers == {"error", "empty", "details"}

\* Blocks stored by the orchestrator (key, value, secret flag).
SecretValue == <<"s", "k">>
PlainValue  == <<"u">>
StoredBlocks ==
    {[key_name |-> "api-key",      value |-> SecretValue, is_secret |-> TRUE],
     [key_name |-> "api-endpoint", value |-> PlainValue,  is_secret |-> FALSE]}
BlockKeys == {"api-key", "api-endpoint", "missing-key"}

\* Messages of the exceptions a user function raises.
UserErrors == {<<"boom">>}

\* Level the user function logs at (warning and error go through the same
\* OrchestratorLogger.log).
Levels == {"INFO"}

VARIABLES
    entry,            \* the launcher's entrypoint text and what it makes of it
    blocks,           \* the Blocks the orchestrator stores for the workspace
    response,         \* what the orchestrator answers a trigger it accepts with
    sys_path,         \* the import search path
    group,            \* the task group of asyncio.gather: tasks, wire, results
    signature,        \* parameters the user functions of the script declare
    site,             \* the SDK call written in the script (NoSite: none)
    calls,            \* calls of that site made so far, with their outcome
    workspace,        \* workspace_id in the orchestrator's details of the run (None: absent)
    unreachable,      \* endpoints whose requests fail at the transport level
    mode,             \* "script": a flow file is __main__; "launcher": orchestrator_wrapper.py is
    env,              \* os.environ restricted to the three ORCH_ names
    pc,               \* "main", "import", "user", "atexit", "exited"
    status,           \* exit status the interpreter will end with
    exitCode,         \* exit code of the process once it has ended
    CLIENT,           \* flow.CLIENT: None or Some(client number)
    LOGGER,           \* flow.LOGGER: None or Some(logger number)
    WORKSPACE_ID,     \* flow.WORKSPACE_ID
    FlowContext_initialized,   \* class attribute FlowContext.initialized
    contexts,         \* FlowContext instances constructed
    clients,          \* OrchestratorClient instances constructed
    loggers,          \* OrchestratorLogger instances constructed
    REGISTERED_FLOWS, \* flow._REGISTERED_FLOWS
    AUTO_EXECUTE_SETUP,
    exitfuncs,        \* callbacks registered with atexit
    envChecks,        \* times _setup_auto_execution read the environment
    sent,             \* requests issued to the orchestrator, in order
    printed,          \* lines written to stdout/stderr, in order
    runs,             \* one record per call of a flow's wrapper
    ops,              \* SDK calls made by the running user function
    held              \* Blocks get_block has returned to user code

lifecycle == <<entry, blocks, response, sys_path, signature, site, calls, workspace, unreachable, mode, env, pc,
               status, exitCode, CLIENT, LOGGER, WORKSPACE_ID,
               FlowContext_initialized, contexts, clients, loggers,
               REGISTERED_FLOWS, AUTO_EXECUTE_SETUP, exitfuncs, envChecks,
               sent, printed, runs, ops, held>>

vars == <<entry, blocks, response, sys_path, group, signature, site, calls, workspace, unreachable,
          mode, env, pc, status, exitCode, CLIENT, LOGGER, WORKSPACE_ID,
          FlowContext_initialized, contexts, clients, loggers,
          REGISTERED_FLOWS, AUTO_EXECUTE_SETUP, exitfuncs, envChecks,
          sent, printed, runs, ops, held>>

\* ------------------------------------------------------------------ text
RECURSIVE Contains(_, _)
\* s occurs in text t
Contains(t, s) ==
    IF Len(t) < Len(s) THEN FALSE
    ELSE IF SubSeq(t, 1, Len(s)) = s THEN TRUE
    ELSE Contains(Tail(t), s)

\* ------------------------------------------------------ flows of __main__
\* Every registered flow taken for one of the script.
InMain_Any(f) == TRUE

\* Flows of _REGISTERED_FLOWS defined in __main__, in declaration order.
InMain(f) == f.module = "__main__"

\* The flows of __main__ with the last declared first.
flows_to_execute_LastFirst ==
    LET s == SelectSeq(REGISTERED_FLOWS, InMain)
    IN  [i \in 1..Len(s) |-> s[Len(s) + 1 - i]]

flows_to_execute == SelectSeq(REGISTERED_FLOWS, InMain)

Line(kind, stream, text, arg) ==
    [kind |-> kind, stream |-> stream, text |-> text, arg |-> arg]

\* What _auto_execute_flow prints before it calls the flow it has chosen:
\* a warning when __main__ declares several flows.
AmbiguityWarning ==
    IF pc = "atexit" /\ Len(flows_to_execute) > 1
    THEN <<Line("warning", "stderr",
                <<"Warning: Multiple flows found in ", "<main_file>", ". Executing: ">>,
                <<ToString(flows_to_execute[1].name)>>)>>
    ELSE <<>>

\* --------------------------------------------------- requests and printing
\* io threads the request log and the terminal through the calls one
\* operation makes: [sent, printed, client, inv].
IO(client) == [sent |-> sent, printed |-> printed \o AmbiguityWarning,
               client |-> client, inv |-> Len(runs)]

Request(io, kind, state, message, exit_code, level, key, ok) ==
    [kind |-> kind, client |-> io.client, inv |-> io.inv, state |-> state,
     message |-> message, exit_code |-> exit_code, level |-> level,
     key |-> key, ok |-> ok]

Reachable(kind) == kind \notin unreachable

Emit(io, line) == [io EXCEPT !.printed = Append(@, line)]

\* OrchestratorClient._call: the request goes out; a RequestException is
\* printed to stderr and swallowed (the caller gets None).
Call(io, req) ==
    LET out == [io EXCEPT !.sent = Append(@, req)]
    IN  IF req.ok THEN out
        ELSE Emit(out, Line("comm_error", "stderr",
                             <<"API Communication Error to ", req.kind>>, <<>>))

\* OrchestratorClient.update_status
update_status(io, state, message, exit_code) ==
    Call(io, Request(io, "status", state, message, exit_code, "", "",
                     Reachable("status")))

\* send_log_entry dropping a failure without a word
send_log_entry_Silent(io, level, message) ==
    [io EXCEPT !.sent = Append(@, Request(io, "log", "", Some(message), None,
                                          level, "", Reachable("log")))]

\* OrchestratorClient.send_log_entry
send_log_entry(io, level, message) ==
    Call(io, Request(io, "log", "", Some(message), None, level, "",
                     Reachable("log")))

\* get_run_details answering without a request
get_run_details_NoRequest(io, ans) == io

\* OrchestratorClient.get_run_details
get_run_details(io, ans) ==
    Call(io, Request(io, "details", "", None, None, "", "", ans # "error")
                 @@ [answer |-> ans])

\* Going on only when the status endpoint is within reach as well.
Fetched_AndReported(ans) == ans = "details" /\ Reachable("status")

\* "if not details": None after a transport error and an empty body are both
\* nothing fetched.
Fetched(ans) == ans = "details"

\* "[{timestamp}][{level}] " and what follows it in a log line
LinePrefix(level) == <<"[ts][", level, "] ">>
Echoed(line)      == SubSeq(line.text, Len(LinePrefix("")) + 1, Len(line.text))

\* OrchestratorLogger.log: echo the line locally, then forward the message.
Log(io, level, message) ==
    send_log_entry(
        Emit(io, Line("log", IF level = "ERROR" THEN "stderr" ELSE "stdout",
                       LinePrefix(level) \o message, message)),
        level, message)

\* --------------------------------------------------- the import search path
\* Bound on the entries the user's module adds to the path.
MaxEdits == 1

\* sys.path of the interpreter at start: the directory of the script, then
\* the installed packages.
InitialPath == <<"<script_dir>", "<site-packages>">>
repo_root   == "<cwd>"

\* finally: if 'repo_root' in locals(): sys.path.pop(0)
\* The step being taken leaves execute_lastcron_flow after repo_root was
\* bound: the first entry of the path is removed, whichever it is.
PathCleanup ==
    sys_path' = IF mode = "launcher" /\ pc \in {"import", "user"} /\ pc' = "atexit"
                THEN Tail(sys_path)
                ELSE sys_path

\* ------------------------------------------------------ leaving the process
\* sys.exit(code), or an exception nobody catches (code 1), raised under the
\* given caller.  Raised inside an atexit callback it is reported and
\* dropped: the exit status of the interpreter stays what it was.
\* An exit whose code is lost.
Exit_Discarded(caller, code) ==
    IF caller = "atexit"
    THEN pc' = "exited" /\ exitCode' = Some(status) /\ status' = status
    ELSE pc' = "atexit" /\ status' = status /\ exitCode' = exitCode

\* sys.exit(code)
Exit(caller, code) ==
    IF caller = "atexit"
    THEN pc' = "exited" /\ exitCode' = Some(status) /\ status' = status
    ELSE pc' = "atexit" /\ status' = code /\ exitCode' = exitCode

\* A wrapper call that returns normally to its caller.
Return(caller) ==
    IF caller = "direct"
    THEN pc' = "main" /\ UNCHANGED <<status, exitCode>>
    ELSE IF caller = "launcher"
    THEN pc' = "atexit" /\ UNCHANGED <<status, exitCode>>
    ELSE pc' = "exited" /\ exitCode' = Some(status) /\ status' = status

\* ------------------------------------------------------------ flow.wrapper
Run(f, caller, outcome, session) ==
    [flow |-> f.name, caller |-> caller, outcome |-> outcome,
     session |-> session, exc |-> <<>>, args |-> None]

\* ------------------------------------------------ calling the user function
\* What a def declares: its named parameters, those of them without a
\* default, and whether it ends in **kwargs.
Signature(names, required, var_kw) ==
    [names |-> names, required |-> required, var_kw |-> var_kw]

Slots == {"parameters", "blocks", "logger", "workspace_id"}

\* def f(parameters, blocks, logger, workspace_id)
FixedSlots == Signature(Slots, Slots, FALSE)

\* The declarations of the examples:
\*   def my_flow(logger, workspace_id, **params)
\*   def old_style_flow(**params)
\*   def new_style_flow(batch_size=100, source='api')
\*   def process_data(batch_size=100, source='api', **kwargs)
\*   def send_notification(recipient, message, priority='normal')
Signatures ==
    {FixedSlots,
     Signature({"logger", "workspace_id"}, {"logger", "workspace_id"}, TRUE),
     Signature({}, {}, TRUE),
     Signature({"batch_size", "source"}, {}, FALSE),
     Signature({"batch_size", "source"}, {}, TRUE),
     Signature({"batch_size", "priority"}, {"batch_size"}, FALSE)}

\* parameters and blocks in the details of the run
RunParameters == [batch_size |-> 5]
RunBlocks     == <<"api-key", "api-endpoint">>

\* func(**kw): each keyword goes to the parameter of its name, or into
\* **kwargs; a keyword with no place, or a required parameter left without
\* a value, is a TypeError (None).
Bind(sig, kw) ==
    LET unexpected == DOMAIN kw \ sig.names
        missing    == sig.required \ DOMAIN kw
    IN  IF (unexpected # {} /\ ~sig.var_kw) \/ missing # {}
        THEN None
        ELSE Some([named  |-> [n \in sig.names \cap DOMAIN kw |-> kw[n]],
                   kwargs |-> [n \in unexpected |-> kw[n]]])

ArgumentError == <<"TypeError: unexpected keyword or missing argument">>

\* flow_kwargs of flow.wrapper
flow_kwargs(logger, workspace_id) ==
    [parameters |-> RunParameters, blocks |-> RunBlocks,
     logger |-> logger, workspace_id |-> workspace_id]

\* The failure callback without its status update.
FailureCallback_LogOnly(io, e) ==
    Log(io, "ERROR",
        <<"Flow execution failed. Error: ">> \o e \o <<"\n", "<traceback>">>)

\* The failure callback reporting the state before it logs.
FailureCallback_StatusFirst(io, e) ==
    Log(update_status(io, "FAILED", Some(<<"Execution error: ">> \o e), Some(1)),
        "ERROR",
        <<"Flow execution failed. Error: ">> \o e \o <<"\n", "<traceback>">>)

\* except Exception in flow.wrapper: ERROR log, FAILED status, sys.exit(1)
FailureCallback(io, e) ==
    update_status(
        Log(io, "ERROR",
            <<"Flow execution failed. Error: ">> \o e \o <<"\n", "<traceback>">>),
        "FAILED", Some(<<"Execution error: ">> \o e), Some(1))

\* except Exception in execute_lastcron_flow
LauncherFailure(io, e) ==
    update_status(
        Log(io, "ERROR",
            <<"Execution failed during bootstrap or pre-run phase: ">> \o e
                \o <<"\n", "<traceback>">>),
        "FAILED", Some(<<"Bootstrap/Pre-run error: ">> \o e), Some(1))

ConfigError == <<"Flow cannot run. Orchestration environment variables are missing.">>
FetchError  == <<"Failed to fetch run details for execution.">>
ReentryError ==
    <<"Flow context already initialized. Ensure the flow decorator is used only once.">>

\* EnvironmentError leaves wrapper before its try block: the launcher's
\* handler catches it; anywhere else nobody does.
WrapperConfigError(f, caller) ==
    /\ runs' = Append(runs, Run(f, caller, "config_error", FALSE))
    /\ UNCHANGED <<CLIENT, LOGGER, WORKSPACE_ID, contexts, clients, loggers>>
    /\ IF caller = "launcher"
       THEN LET io == LauncherFailure(IO(Some(1)), ConfigError)
            IN  sent' = io.sent /\ printed' = io.printed
       ELSE /\ sent' = sent
            /\ printed' = Append(printed,
                    Line("traceback", "stderr", <<"EnvironmentError: ">> \o ConfigError, <<>>))
    /\ Exit(caller, 1)

\* The wrapper storing the workspace id of whatever the fetch brought back.
WrapperTry_StoreFirst(f, caller, c) ==
    \E ans \in DetailsAnswers :
      LET io1 == get_run_details([IO(c) EXCEPT !.inv = Len(runs) + 1], ans)
          fetched == Fetched(ans)
          reentry == fetched /\ FlowContext_initialized
          bound == Bind(signature, flow_kwargs(LOGGER', workspace))
      IN  /\ WORKSPACE_ID' = IF fetched THEN workspace ELSE None
          /\ IF fetched /\ ~reentry /\ bound # None
             THEN /\ contexts' = contexts + 1
                  /\ runs' = Append(runs,
                        [Run(f, caller, "user", TRUE) EXCEPT !.args = bound])
                  /\ sent' = io1.sent /\ printed' = io1.printed
                  /\ pc' = "user"
                  /\ UNCHANGED <<status, exitCode>>
             ELSE IF fetched /\ ~reentry
             THEN /\ contexts' = contexts + 1
                  /\ runs' = Append(runs, Run(f, caller, "arg_error", TRUE))
                  /\ LET io2 == FailureCallback(io1, ArgumentError)
                     IN  sent' = io2.sent /\ printed' = io2.printed
                  /\ Exit(caller, 1)
             ELSE /\ contexts' = contexts
                  /\ runs' = Append(runs,
                        Run(f, caller, IF reentry THEN "reentry" ELSE "fetch_error", TRUE))
                  /\ LET io2 == FailureCallback(io1,
                                    IF reentry THEN ReentryError ELSE FetchError)
                     IN  sent' = io2.sent /\ printed' = io2.printed
                  /\ Exit(caller, 1)

\* wrapper from the try block on, with the session client c
WrapperTry(f, caller, c) ==
    \E ans \in DetailsAnswers :
      LET io1 == get_run_details([IO(c) EXCEPT !.inv = Len(runs) + 1], ans)
          fetched == Fetched(ans)
          reentry == fetched /\ FlowContext_initialized
          bound == Bind(signature, flow_kwargs(LOGGER', workspace))
      IN  /\ WORKSPACE_ID' = IF fetched THEN workspace ELSE WORKSPACE_ID
          /\ IF fetched /\ ~reentry /\ bound # None
             THEN /\ contexts' = contexts + 1
                  /\ runs' = Append(runs,
                        [Run(f, caller, "user", TRUE) EXCEPT !.args = bound])
                  /\ sent' = io1.sent /\ printed' = io1.printed
                  /\ pc' = "user"
                  /\ UNCHANGED <<status, exitCode>>
             ELSE IF fetched /\ ~reentry
             THEN /\ contexts' = contexts + 1
                  /\ runs' = Append(runs, Run(f, caller, "arg_error", TRUE))
                  /\ LET io2 == FailureCallback(io1, ArgumentError)
                     IN  sent' = io2.sent /\ printed' = io2.printed
                  /\ Exit(caller, 1)
             ELSE /\ contexts' = contexts
                  /\ runs' = Append(runs,
                        Run(f, caller, IF reentry THEN "reentry" ELSE "fetch_error", TRUE))
                  /\ LET io2 == FailureCallback(io1,
                                    IF reentry THEN ReentryError ELSE FetchError)
                     IN  sent' = io2.sent /\ printed' = io2.printed
                  /\ Exit(caller, 1)

\* The wrapper constructing a client and a logger on every call.
Wrapper_AlwaysConstruct(f, caller) ==
    IF CLIENT = None /\ ~EnvComplete(env)
    THEN WrapperConfigError(f, caller)
    ELSE /\ CLIENT' = Some(clients + 1) /\ clients' = clients + 1
         /\ LOGGER' = Some(loggers + 1) /\ loggers' = loggers + 1
         /\ WrapperTry(f, caller, Some(clients + 1))

\* The wrapper without the check of the environment.
Wrapper_NoEnvCheck(f, caller) ==
    IF CLIENT = None
    THEN /\ CLIENT' = Some(clients + 1) /\ clients' = clients + 1
         /\ LOGGER' = Some(loggers + 1) /\ loggers' = loggers + 1
         /\ WrapperTry(f, caller, Some(clients + 1))
    ELSE /\ UNCHANGED <<CLIENT, LOGGER, clients, loggers>>
         /\ WrapperTry(f, caller, CLIENT)

\* flow.wrapper up to the call of the user function
Wrapper(f, caller) ==
    IF CLIENT = None /\ ~EnvComplete(env)
    THEN WrapperConfigError(f, caller)
    ELSE IF CLIENT = None
    THEN /\ CLIENT' = Some(clients + 1) /\ clients' = clients + 1
         /\ LOGGER' = Some(loggers + 1) /\ loggers' = loggers + 1
         /\ WrapperTry(f, caller, Some(clients + 1))
    ELSE /\ UNCHANGED <<CLIENT, LOGGER, clients, loggers>>
         /\ WrapperTry(f, caller, CLIENT)

\* Decorating with the set-up of auto-execution redone at every declaration.
DeclareFlow_EveryTime(module) ==
    /\ pc = (IF mode = "script" THEN "main" ELSE "import")
    /\ module = "__main__" => mode = "script"
    /\ module = "lib" =>
         \A i \in DOMAIN REGISTERED_FLOWS : REGISTERED_FLOWS[i].module = "lib"
    /\ Len(REGISTERED_FLOWS) < MaxFlows
    /\ REGISTERED_FLOWS' = Append(REGISTERED_FLOWS,
            [name |-> Len(REGISTERED_FLOWS) + 1, module |-> module])
    /\ AUTO_EXECUTE_SETUP' = TRUE
    /\ envChecks' = envChecks + 1
    /\ exitfuncs' = IF EnvComplete(env)
                    THEN exitfuncs + 1 ELSE exitfuncs
    /\ UNCHANGED <<entry, blocks, response, group, signature, site, calls, workspace, unreachable,
                   mode, env, pc, status, exitCode, CLIENT, LOGGER, WORKSPACE_ID,
                   FlowContext_initialized, contexts, clients, loggers,
                   sent, printed, runs, ops, held>>
    /\ PathCleanup

\* ------------------------------------------------------------- decorating
\* flow(func): register the handle, then _setup_auto_execution(), which
\* reads the environment on its first call only.  Flows of imported modules
\* are declared before the script's own (imports come first).
DeclareFlow(module) ==
    /\ pc = (IF mode = "script" THEN "main" ELSE "import")
    /\ module = "__main__" => mode = "script"
    /\ module = "lib" =>
         \A i \in DOMAIN REGISTERED_FLOWS : REGISTERED_FLOWS[i].module = "lib"
    /\ Len(REGISTERED_FLOWS) < MaxFlows
    /\ REGISTERED_FLOWS' = Append(REGISTERED_FLOWS,
            [name |-> Len(REGISTERED_FLOWS) + 1, module |-> module])
    /\ AUTO_EXECUTE_SETUP' = TRUE
    /\ envChecks' = IF AUTO_EXECUTE_SETUP THEN envChecks ELSE envChecks + 1
    /\ exitfuncs' = IF ~AUTO_EXECUTE_SETUP /\ EnvComplete(env)
                    THEN exitfuncs + 1 ELSE exitfuncs
    /\ UNCHANGED <<entry, blocks, response, group, signature, site, calls, workspace, unreachable,
                   mode, env, pc, status, exitCode, CLIENT, LOGGER, WORKSPACE_ID,
                   FlowContext_initialized, contexts, clients, loggers,
                   sent, printed, runs, ops, held>>
    /\ PathCleanup

Directs == Cardinality({i \in DOMAIN runs : runs[i].caller = "direct"})

\* The top-level script calls one of its flows.
InvokeDirect(n) ==
    /\ mode = "script" /\ pc = "main"
    /\ n \in DOMAIN REGISTERED_FLOWS
    /\ Directs < MaxDirect
    /\ Wrapper(REGISTERED_FLOWS[n], "direct")
    /\ UNCHANGED <<entry, blocks, response, group, signature, site, calls, workspace, unreachable,
                   mode, env, FlowContext_initialized, REGISTERED_FLOWS,
                   AUTO_EXECUTE_SETUP, exitfuncs, envChecks, ops, held>>
    /\ PathCleanup

\* The top-level script runs off its end.
ScriptEnd ==
    /\ mode = "script" /\ pc = "main"
    /\ pc' = "atexit"
    /\ UNCHANGED <<entry, blocks, response, group, signature, site, calls, workspace, unreachable,
                   mode, env, status, exitCode, CLIENT, LOGGER, WORKSPACE_ID,
                   FlowContext_initialized, contexts, clients, loggers,
                   REGISTERED_FLOWS, AUTO_EXECUTE_SETUP, exitfuncs, envChecks,
                   sent, printed, runs, ops, held>>
    /\ PathCleanup

\* --------------------------------------------------------- the user function
Current == runs[Len(runs)]

\* What a user function logs: a text around the value of a Block it holds,
\* or a fixed text while it holds none.
Around(b)    == <<"v=">> \o b.value \o <<"!">>
UserMessages == IF held = {} THEN {<<"hi">>} ELSE {Around(b) : b \in held}
AllMessages  == {<<"hi">>} \cup {Around(b) : b \in StoredBlocks}

\* logger.info / warning / error called by the user function
UserLog(level, message) ==
    /\ pc = "user" /\ ops < MaxUserOps
    /\ message \in UserMessages
    /\ LET io == Log(IO(CLIENT), level, message)
       IN  sent' = io.sent /\ printed' = io.printed
    /\ ops' = ops + 1
    /\ UNCHANGED <<entry, blocks, response, group, signature, site, calls, workspace, unreachable,
                   mode, env, pc, status, exitCode, CLIENT, LOGGER, WORKSPACE_ID,
                   FlowContext_initialized, contexts, clients, loggers,
                   REGISTERED_FLOWS, AUTO_EXECUTE_SETUP, exitfuncs, envChecks,
                   runs, held>>
    /\ PathCleanup

\* CLIENT.api.get_block(run_id, key_name): GET of the block by key for this
\* run; the Block, or None when there is none or the request fails.
\* What the orchestrator answers a fetch by key with, at this moment.
BlockAnswer(key) ==
    IF Reachable("block")
    THEN {b \in blocks : b.key_name = key} ELSE None

ApiGetBlock(io, key) ==
    Call(io, Request(io, "block", "", None, None, "", key, Reachable("block"))
                 @@ [answer |-> BlockAnswer(key)])

\* get_block answering from the Blocks it fetched before.
Kept(key) == {b \in held : b.key_name = key}
UserGetBlock_Cached(key) ==
    /\ pc = "user" /\ ops < MaxUserOps
    /\ CLIENT # None
    /\ LET io == IF Kept(key) = {} THEN ApiGetBlock(IO(CLIENT), key) ELSE IO(CLIENT)
       IN  sent' = io.sent /\ printed' = io.printed
    /\ held' = held \cup (IF Kept(key) = {} THEN BlockAnswer(key) ELSE Kept(key))
    /\ calls' = Append(calls,
           [api |-> "get_block", at |-> pc, inv |-> Len(runs), key |-> key,
            client |-> CLIENT, workspace_id |-> WORKSPACE_ID,
            answer |-> "none", result |-> IF Kept(key) = {} THEN BlockAnswer(key) ELSE Kept(key),
            raised |-> "", caught |-> FALSE,
            sent |-> SubSeq(sent', Len(sent) + 1, Len(sent')),
            printed |-> SubSeq(printed', Len(printed) + 1, Len(printed'))])
    /\ ops' = ops + 1
    /\ UNCHANGED <<entry, blocks, response, group, signature, site, workspace, unreachable,
                   mode, env, pc, status, exitCode, CLIENT, LOGGER, WORKSPACE_ID,
                   FlowContext_initialized, contexts, clients, loggers,
                   REGISTERED_FLOWS, AUTO_EXECUTE_SETUP, exitfuncs, envChecks,
                   runs>>
    /\ PathCleanup

\* get_block(key_name) called by the user function
UserGetBlock(key) ==
    /\ pc = "user" /\ ops < MaxUserOps
    /\ CLIENT # None
    /\ LET io == ApiGetBlock(IO(CLIENT), key)
       IN  sent' = io.sent /\ printed' = io.printed
    /\ held' = held \cup BlockAnswer(key)
    /\ calls' = Append(calls,
           [api |-> "get_block", at |-> pc, inv |-> Len(runs), key |-> key,
            client |-> CLIENT, workspace_id |-> WORKSPACE_ID,
            answer |-> "none", result |-> BlockAnswer(key),
            raised |-> "", caught |-> FALSE,
            sent |-> SubSeq(sent', Len(sent) + 1, Len(sent')),
            printed |-> SubSeq(printed', Len(printed) + 1, Len(printed'))])
    /\ ops' = ops + 1
    /\ UNCHANGED <<entry, blocks, response, group, signature, site, workspace, unreachable,
                   mode, env, pc, status, exitCode, CLIENT, LOGGER, WORKSPACE_ID,
                   FlowContext_initialized, contexts, clients, loggers,
                   REGISTERED_FLOWS, AUTO_EXECUTE_SETUP, exitfuncs, envChecks,
                   runs>>
    /\ PathCleanup

\* The orchestrator's Block of a key is given another value.
NewValue == <<"w">>
StoreEdit(key) ==
    /\ blocks = StoredBlocks
    /\ blocks' = {IF b.key_name = key THEN [b EXCEPT !.value = NewValue] ELSE b :
                      b \in blocks}
    /\ blocks' # blocks
    /\ UNCHANGED <<entry, response, group, signature, site, calls, workspace, unreachable,
                   mode, env, pc, status, exitCode, CLIENT, LOGGER, WORKSPACE_ID,
                   FlowContext_initialized, contexts, clients, loggers,
                   REGISTERED_FLOWS, AUTO_EXECUTE_SETUP, exitfuncs, envChecks,
                   sent, printed, runs, ops, held, sys_path>>

\* The success callback reporting COMPLETED without an exit code.
UserReturn_NoExitCode ==
    /\ pc = "user"
    /\ LET io == update_status(
                     Log(IO(CLIENT), "INFO",
                         <<"Flow finished execution successfully.">>),
                     "COMPLETED", None, None)
       IN  sent' = io.sent /\ printed' = io.printed
    /\ runs' = [runs EXCEPT ![Len(runs)].outcome = "returned"]
    /\ Return(runs[Len(runs)].caller)
    /\ UNCHANGED <<entry, blocks, response, group, signature, site, calls, workspace, unreachable,
                   mode, env, CLIENT, LOGGER, WORKSPACE_ID,
                   FlowContext_initialized, contexts, clients, loggers,
                   REGISTERED_FLOWS, AUTO_EXECUTE_SETUP, exitfuncs, envChecks,
                   ops, held>>
    /\ PathCleanup

\* The user function returns: success callback of flow.wrapper.
UserReturn ==
    /\ pc = "user"
    /\ LET io == update_status(
                     Log(IO(CLIENT), "INFO",
                         <<"Flow finished execution successfully.">>),
                     "COMPLETED", None, Some(0))
       IN  sent' = io.sent /\ printed' = io.printed
    /\ runs' = [runs EXCEPT ![Len(runs)].outcome = "returned"]
    /\ Return(Current.caller)
    /\ UNCHANGED <<entry, blocks, response, group, signature, site, calls, workspace, unreachable,
                   mode, env, CLIENT, LOGGER, WORKSPACE_ID,
                   FlowContext_initialized, contexts, clients, loggers,
                   REGISTERED_FLOWS, AUTO_EXECUTE_SETUP, exitfuncs, envChecks,
                   ops, held>>
    /\ PathCleanup

\* The failure callback ending in an exception that the handler of the
\* launcher catches in its turn.
UserRaise_Reraised(e) ==
    /\ pc = "user"
    /\ LET io1 == FailureCallback(IO(CLIENT), e)
           io  == IF Current.caller = "launcher"
                  THEN LauncherFailure([io1 EXCEPT !.inv = 0], e)
                  ELSE io1
       IN  sent' = io.sent /\ printed' = io.printed
    /\ runs' = [runs EXCEPT ![Len(runs)].outcome = "raised",
                            ![Len(runs)].exc = e]
    /\ Exit(Current.caller, 1)
    /\ UNCHANGED <<entry, blocks, response, group, signature, site, calls, workspace, unreachable,
                   mode, env, CLIENT, LOGGER, WORKSPACE_ID,
                   FlowContext_initialized, contexts, clients, loggers,
                   REGISTERED_FLOWS, AUTO_EXECUTE_SETUP, exitfuncs, envChecks,
                   ops, held>>
    /\ PathCleanup

\* The user function raises an Exception: failure callback of flow.wrapper.
UserRaise(e) ==
    /\ pc = "user"
    /\ LET io == FailureCallback(IO(CLIENT), e)
       IN  sent' = io.sent /\ printed' = io.printed
    /\ runs' = [runs EXCEPT ![Len(runs)].outcome = "raised",
                            ![Len(runs)].exc = e]
    /\ Exit(Current.caller, 1)
    /\ UNCHANGED <<entry, blocks, response, group, signature, site, calls, workspace, unreachable,
                   mode, env, CLIENT, LOGGER, WORKSPACE_ID,
                   FlowContext_initialized, contexts, clients, loggers,
                   REGISTERED_FLOWS, AUTO_EXECUTE_SETUP, exitfuncs, envChecks,
                   ops, held>>
    /\ PathCleanup

\* ------------------------------------------------ the entrypoint translation
\* execute_lastcron_flow turns the entrypoint of the run, a text
\* "<module-path>:<function-name>", into the module it imports and the
\* attribute it calls. Text is a sequence of characters.
MaxSegments == 3

Colon     == <<":">>
Slash     == <<"/">>
Dot       == <<".">>
Extension == <<".", "p", "y">>
Empty     == <<>>

\* Directory and file names, and function names, the entrypoints are made of.
Segments      == {<<"f">>, <<"p", "y">>, <<"p", "y", "f">>}
FunctionNames == {<<"g", "o">>, <<"r", "u", "n">>}

RECURSIVE Join(_)
Join(segments) ==
    IF Len(segments) = 1 THEN segments[1]
    ELSE segments[1] \o Slash \o Join(Tail(segments))

\* Relative paths of Python files, each with a function name.
ModulePaths ==
    {Join(s) \o Extension :
        s \in UNION {[1..k -> Segments] : k \in 1..MaxSegments}}
Entrypoints ==
    {p \o Colon \o f : p \in ModulePaths, f \in FunctionNames}

StartsWith(text, old) ==
    Len(text) >= Len(old) /\ SubSeq(text, 1, Len(old)) = old

\* str.split(sep): the pieces between the occurrences of sep.
RECURSIVE split(_, _)
split(text, sep) ==
    IF \E i \in 1..Len(text) : StartsWith(SubSeq(text, i, Len(text)), sep)
    THEN LET i == CHOOSE k \in 1..Len(text) :
                      /\ StartsWith(SubSeq(text, k, Len(text)), sep)
                      /\ \A j \in 1..(k - 1) :
                            ~StartsWith(SubSeq(text, j, Len(text)), sep)
         IN  <<SubSeq(text, 1, i - 1)>>
                 \o split(SubSeq(text, i + Len(sep), Len(text)), sep)
    ELSE <<text>>

\* str.replace(old, new): every occurrence of old, found from left to right
\* without overlap, becomes new.
RECURSIVE replace(_, _, _)
replace(text, old, new) ==
    IF Len(text) = 0 THEN text
    ELSE IF StartsWith(text, old)
    THEN new \o replace(SubSeq(text, Len(old) + 1, Len(text)), old, new)
    ELSE <<Head(text)>> \o replace(Tail(text), old, new)

NoEntry ==
    [pc |-> "none", entrypoint |-> Empty, module_path |-> Empty,
     func_name |-> Empty, imported |-> Empty, called |-> Empty]

EntryOf(entrypoint) == [NoEntry EXCEPT !.pc = "split", !.entrypoint = entrypoint]

program == <<blocks, response, sys_path, group, signature, site, calls,
             workspace, unreachable, mode, env, pc, status, exitCode,
             CLIENT, LOGGER, WORKSPACE_ID, FlowContext_initialized,
             contexts, clients, loggers, REGISTERED_FLOWS,
             AUTO_EXECUTE_SETUP, exitfuncs, envChecks,
             sent, printed, runs, ops, held>>

\* module_path, func_name = entrypoint.split(':')
EntrySplit ==
    /\ entry.pc = "split"
    /\ LET parts == split(entry.entrypoint, Colon)
       IN  IF Len(parts) = 2
           THEN entry' = [entry EXCEPT !.pc = "translate",
                                       !.module_path = parts[1],
                                       !.func_name = parts[2]]
           ELSE entry' = [entry EXCEPT !.pc = "failed"]
    /\ UNCHANGED program

\* module_path = module_path.replace('/', '.').replace('.py', '')
EntryTranslate ==
    /\ entry.pc = "translate"
    /\ entry' = [entry EXCEPT
                   !.pc = "import",
                   !.module_path =
                       replace(replace(entry.module_path, Slash, Dot),
                               Extension, Empty)]
    /\ UNCHANGED program

\* importlib.import_module(module_path), getattr(module, func_name) and the
\* call of the attribute.
EntryImport ==
    /\ entry.pc = "import"
    /\ entry' = [entry EXCEPT !.pc = "called",
                              !.imported = entry.module_path,
                              !.called = entry.func_name]
    /\ UNCHANGED program

\* ------------------------------------------------------------- the launcher
BootstrapError == <<"Could not retrieve run details from API.">>
ImportError    == <<"No module named / has no attribute">>

\* orchestrator_wrapper.py, then execute_lastcron_flow up to the import of
\* the user's module.
LauncherStart ==
    /\ mode = "launcher" /\ pc = "main"
    /\ IF ~EnvComplete(env)
       THEN /\ printed' = Append(printed,
                   Line("fatal", "stderr",
                        <<"Fatal: Missing LastCron orchestration environment variables.">>,
                        <<>>))
            /\ pc' = "atexit" /\ status' = 128
            /\ UNCHANGED <<clients, loggers, sent, exitCode, sys_path>>
       ELSE /\ clients' = clients + 1 /\ loggers' = loggers + 1
            /\ \E ans \in DetailsAnswers :
                 LET c   == Some(clients + 1)
                     io1 == update_status(IO(c), "RUNNING", None, None)
                     io2 == Log(io1, "INFO",
                                <<"LastCron execution started for Run ID: ", "<run_id>", ".">>)
                     io3 == get_run_details(io2, ans)
                     io4 == LauncherFailure(io3, BootstrapError)
                 IN  IF Fetched(ans)
                     THEN /\ sent' = io3.sent /\ printed' = io3.printed
                          /\ pc' = "import"
                          /\ UNCHANGED <<status, exitCode>>
                          /\ sys_path' = <<repo_root>> \o sys_path
                     ELSE /\ sent' = io4.sent /\ printed' = io4.printed
                          /\ Exit("launcher", 1)
                          /\ sys_path' = sys_path
    /\ UNCHANGED <<entry, blocks, response, group, signature, site, calls, workspace, unreachable,
                   mode, env, CLIENT, LOGGER, WORKSPACE_ID,
                   FlowContext_initialized, contexts,
                   REGISTERED_FLOWS, AUTO_EXECUTE_SETUP, exitfuncs, envChecks,
                   runs, ops, held>>

\* The module being imported puts a directory of its own on the path:
\* sys.path.insert(0, d) or sys.path.append(d).
PathEdits == {"insert", "append"}
ImportEdit(op) ==
    /\ mode = "launcher" /\ pc = "import"
    /\ Len(sys_path) < Len(InitialPath) + 1 + MaxEdits
    /\ sys_path' = IF op = "insert" THEN <<"<lib>">> \o sys_path
                                    ELSE Append(sys_path, "<lib>")
    /\ UNCHANGED <<entry, blocks, response, group, signature, site, calls, workspace, unreachable,
                   mode, env, pc, status, exitCode, CLIENT, LOGGER, WORKSPACE_ID,
                   FlowContext_initialized, contexts, clients, loggers,
                   REGISTERED_FLOWS, AUTO_EXECUTE_SETUP, exitfuncs, envChecks,
                   sent, printed, runs, ops, held>>

\* importlib.import_module or getattr raises: handled by the launcher.
LauncherImportError ==
    /\ mode = "launcher" /\ pc = "import"
    /\ LET io == LauncherFailure(IO(Some(1)), ImportError)
       IN  sent' = io.sent /\ printed' = io.printed
    /\ Exit("launcher", 1)
    /\ UNCHANGED <<entry, blocks, response, group, signature, site, calls, workspace, unreachable,
                   mode, env, CLIENT, LOGGER, WORKSPACE_ID,
                   FlowContext_initialized, contexts, clients, loggers,
                   REGISTERED_FLOWS, AUTO_EXECUTE_SETUP, exitfuncs, envChecks,
                   runs, ops, held>>
    /\ PathCleanup

\* flow_function(): the launcher calls the imported flow.
LauncherCall(n) ==
    /\ mode = "launcher" /\ pc = "import"
    /\ n \in DOMAIN REGISTERED_FLOWS
    /\ Wrapper(REGISTERED_FLOWS[n], "launcher")
    /\ UNCHANGED <<entry, blocks, response, group, signature, site, calls, workspace, unreachable,
                   mode, env, FlowContext_initialized, REGISTERED_FLOWS,
                   AUTO_EXECUTE_SETUP, exitfuncs, envChecks, ops, held>>
    /\ PathCleanup

\* ------------------------------------------------------------ interpreter exit
\* No atexit callback, or _auto_execute_flow finds no flow of __main__.
ExitQuiet ==
    /\ pc = "atexit"
    /\ exitfuncs = 0 \/ flows_to_execute = <<>>
    /\ pc' = "exited" /\ exitCode' = Some(status)
    /\ UNCHANGED <<entry, blocks, response, group, signature, site, calls, workspace, unreachable,
                   mode, env, status, CLIENT, LOGGER, WORKSPACE_ID,
                   FlowContext_initialized, contexts, clients, loggers,
                   REGISTERED_FLOWS, AUTO_EXECUTE_SETUP, exitfuncs, envChecks,
                   sent, printed, runs, ops, held>>
    /\ PathCleanup

\* _auto_execute_flow calls the first flow declared in __main__.
AutoExecute ==
    /\ pc = "atexit"
    /\ exitfuncs > 0 /\ flows_to_execute # <<>>
    /\ Wrapper(flows_to_execute[1], "atexit")
    /\ UNCHANGED <<entry, blocks, response, group, signature, site, calls, workspace, unreachable,
                   mode, env, FlowContext_initialized, REGISTERED_FLOWS,
                   AUTO_EXECUTE_SETUP, exitfuncs, envChecks, ops, held>>
    /\ PathCleanup

\* ------------------------------------------------- triggering other flows
\* Function name of the n-th declared flow.
FlowName(n) == <<"f", ToString(n)>>

\* Values a script passes as parameters= and scheduled_start=.
Now  == 1
Past == 0
Future == 2
PyNone        == [type |-> "NoneType", at |-> 0, text |-> <<>>]
PyDict        == [type |-> "dict",     at |-> 0, text |-> <<"k", "v">>]
PyList        == [type |-> "list",     at |-> 0, text |-> <<"k">>]
PyDatetime(t) == [type |-> "datetime", at |-> t, text |-> <<>>]
PyStr(s)      == [type |-> "str",      at |-> 0, text |-> s]
isoformat(t)  == <<"T", ToString(t)>>

\* The call a script makes: which function, and its arguments.  The
\* arguments of a trigger depart from valid ones in one respect at a time.
NoSite == [api |-> "none", flow_name |-> <<>>, parameters |-> PyNone,
           scheduled_start |-> PyNone, key_name |-> ""]
Names == {FlowName(1), <<" ">> \o FlowName(1) \o <<" ">>, <<>>, <<" ", " ">>}
ParameterValues == {PyNone, PyDict, PyList}
StartValues == {PyNone, PyDatetime(Past), PyDatetime(Future),
                PyStr(isoformat(Past)), PyStr(<<"soon">>)}
TriggerArgs ==
    {a \in [flow_name : Names, parameters : ParameterValues,
            scheduled_start : StartValues] :
        \/ a.parameters = PyNone /\ a.scheduled_start = PyNone
        \/ a.flow_name = FlowName(1) /\ a.parameters = PyNone
        \/ a.flow_name = FlowName(1) /\ a.scheduled_start = PyNone}
Sites ==
    {[NoSite EXCEPT !.api = "run_flow", !.flow_name = a.flow_name,
                    !.parameters = a.parameters,
                    !.scheduled_start = a.scheduled_start] : a \in TriggerArgs}
    \cup {[NoSite EXCEPT !.api = "submit", !.flow_name = a.flow_name,
                         !.parameters = a.parameters,
                         !.scheduled_start = a.scheduled_start] :
             a \in {b \in TriggerArgs : b.flow_name = FlowName(1)}}
    \cup {[NoSite EXCEPT !.api = "get_block", !.key_name = k] : k \in BlockKeys}
    \cup {[NoSite EXCEPT !.api = "get_run_logger"]}

\* Answers of the orchestrator to a trigger by name.
TriggerAnswers == {"created", "not_found", "error"}

RECURSIVE lstrip(_)
lstrip(t) == IF t # <<>> /\ Head(t) = " " THEN lstrip(Tail(t)) ELSE t
RECURSIVE rstrip(_)
rstrip(t) ==
    IF t # <<>> /\ t[Len(t)] = " " THEN rstrip(SubSeq(t, 1, Len(t) - 1)) ELSE t
strip(t) == rstrip(lstrip(t))

\* datetime.fromisoformat: the point in time a text denotes, None if none
fromisoformat(text) == {t \in {Past, Now, Future} : isoformat(t) = text}

\* scheduled_start is None, or a point in time strictly in the future
ValidStart(v) ==
    \/ v.type = "NoneType"
    \/ v.type = "datetime" /\ v.at > Now
    \/ v.type = "str" /\ \E t \in fromisoformat(v.text) : t > Now

\* Validation before the request: the exception raised, "" for none.
TriggerValidation(flow_name, parameters, scheduled_start) ==
    IF parameters.type \notin {"NoneType", "dict"} THEN "TypeError"
    ELSE IF strip(flow_name) = <<>> THEN "ValueError"
    ELSE IF ~ValidStart(scheduled_start) THEN "ValueError"
    ELSE ""

\* What a call gives back: the io after it, its result, the exception raised.
Outcome(io, result, raised) == [io |-> io, result |-> result, raised |-> raised]

\* The record the orchestrator answers a trigger with.
Response(id, state, parameters) ==
    [id |-> id, flow_id |-> 3, workspace_id |-> 100,
     state |-> state, parameters |-> parameters]

CreatedRun == Response(7, "PENDING", [x |-> 1])

\* Answers that depart from CreatedRun in one respect.
StateNames == {"PENDING", "RUNNING", "COMPLETED", "FAILED"}
Responses ==
    {Response(7, s, [x |-> 1]) : s \in StateNames}
        \cup {Response(8, "PENDING", [x |-> 1]),
              Response(7, "PENDING", [x |-> 1, y |-> 2])}

\* The variant of the enumeration FlowRunState with the given value.
FlowRunState(value) == [enum |-> "FlowRunState", value |-> value]

\* A FlowRun whose state is PENDING whatever the answer says.
FlowRun_from_dict_Pending(data) ==
    [id |-> data.id, flow_id |-> data.flow_id, workspace_id |-> data.workspace_id,
     state |-> FlowRunState("PENDING"), parameters |-> data.parameters]

\* FlowRun.from_dict
FlowRun_from_dict(data) ==
    [id |-> data.id, flow_id |-> data.flow_id, workspace_id |-> data.workspace_id,
     state |-> FlowRunState(data.state), parameters |-> data.parameters]

\* CLIENT.api.trigger_flow_by_name: validate, then one request addressed by
\* the trimmed name; the created run, None after a transport error, a
\* ValueError for a name the workspace does not know.
trigger_flow_by_name(io, workspace_id, flow_name, parameters, scheduled_start, ans) ==
    LET invalid == TriggerValidation(flow_name, parameters, scheduled_start)
        req == Request(io, "trigger", "", None, None, "", "", ans # "error")
                   @@ [workspace_id |-> workspace_id,
                       flow_name |-> strip(flow_name),
                       parameters |-> parameters,
                       scheduled_start |-> scheduled_start]
        out == Call(io, req)
    IN  IF invalid # "" THEN Outcome(io, None, invalid)
        ELSE IF ans = "not_found" THEN Outcome(out, None, "ValueError")
        ELSE IF ans = "error" THEN Outcome(out, None, "")
        ELSE Outcome(out, Some(response), "")

\* run_flow without its except clauses: what the API client raises reaches
\* the caller.
run_flow_NoExcept(io, workspace_id, flow_name, parameters, scheduled_start, ans) ==
    IF io.client = None \/ workspace_id = None
    THEN Outcome(io, None, "RuntimeError")
    ELSE trigger_flow_by_name(
             Log(io, "INFO", <<"Triggering flow '">> \o flow_name
                                 \o <<"' in workspace ", "<id>">>),
             workspace_id, flow_name, parameters, scheduled_start, ans)

\* flow.run_flow
run_flow(io, workspace_id, flow_name, parameters, scheduled_start, ans) ==
    IF io.client = None \/ workspace_id = None
    THEN Outcome(io, None, "RuntimeError")
    ELSE LET io1 == Log(io, "INFO",
                        <<"Triggering flow '">> \o flow_name
                            \o <<"' in workspace ", "<id>">>)
             r   == trigger_flow_by_name(io1, workspace_id, flow_name,
                                         parameters, scheduled_start, ans)
         IN  IF r.raised = "ValueError"
             THEN Outcome(Log(r.io, "ERROR",
                              <<"Failed to trigger flow '">> \o flow_name
                                  \o <<"': ", "<error>">>), None, "")
             ELSE IF r.raised = "TypeError"
             THEN Outcome(Log(r.io, "ERROR",
                              <<"Invalid parameters for flow '">> \o flow_name
                                  \o <<"': ", "<error>">>), None, "")
             ELSE IF r.result = None
             THEN Outcome(Log(r.io, "ERROR",
                              <<"Failed to trigger flow '">> \o flow_name
                                  \o <<"' - API returned None">>), None, "")
             ELSE Outcome(Log(r.io, "INFO",
                              <<"Successfully triggered flow '">> \o flow_name
                                  \o <<"'. Run ID: ", "<id>", ", State: ", "<state>">>),
                          Some(FlowRun_from_dict(Val(r.result))), "")

\* submit giving None where the workspace id is missing
submit_NoneWithoutWorkspace(io, workspace_id, flow_name, parameters, scheduled_start, ans) ==
    IF io.client = None
    THEN Outcome(io, None, "RuntimeError")
    ELSE IF workspace_id = None
    THEN Outcome(io, None, "")
    ELSE LET r == trigger_flow_by_name(io, workspace_id, flow_name,
                                       parameters, scheduled_start, ans)
         IN  IF r.raised # "" \/ r.result = None
             THEN r
             ELSE Outcome(r.io, Some(FlowRun_from_dict(Val(r.result))), "")

\* FlowWrapper.submit of the flow registered under flow_name
submit(io, workspace_id, flow_name, parameters, scheduled_start, ans) ==
    IF io.client = None \/ workspace_id = None
    THEN Outcome(io, None, "RuntimeError")
    ELSE LET r == trigger_flow_by_name(io, workspace_id, flow_name,
                                       parameters, scheduled_start, ans)
         IN  IF r.raised # "" \/ r.result = None
             THEN r
             ELSE Outcome(r.io, Some(FlowRun_from_dict(Val(r.result))), "")

\* get_block raising for a key the orchestrator does not know
get_block_NotFoundRaises(io, key_name) ==
    IF io.client = None
    THEN Outcome(io, None, "RuntimeError")
    ELSE Outcome(ApiGetBlock(io, key_name), BlockAnswer(key_name),
                 IF BlockAnswer(key_name) = None THEN "KeyError" ELSE "")

\* get_block without its check of CLIENT
get_block_NoCheck(io, key_name) ==
    Outcome(ApiGetBlock(io, key_name), BlockAnswer(key_name), "")

\* flow.get_block
get_block(io, key_name) ==
    IF io.client = None
    THEN Outcome(io, None, "RuntimeError")
    ELSE Outcome(ApiGetBlock(io, key_name), BlockAnswer(key_name), "")

\* get_run_logger reads the attributes of the class FlowContext: initialized,
\* and logger, which the class only annotates, so that reading it raises.
get_run_logger(io) ==
    IF FlowContext_initialized
    THEN Outcome(io, None, "AttributeError")
    ELSE Outcome(io, None, "RuntimeError")

\* Text of an exception the SDK or its API client raises.
ExceptionText(raised) == <<raised, ": ", "<reason>">>

\* A trigger request is among those the call issued.
Triggered(io) ==
    \E j \in (Len(sent) + 1)..Len(io.sent) : io.sent[j].kind = "trigger"

\* The script is at a point where it can make its call: inside a running
\* user function, or at the top level of the script.
Callable ==
    /\ site # NoSite /\ Len(calls) < MaxCalls
    /\ pc = "user" \/ (mode = "script" /\ pc = "main")

\* The call ends with outcome r.  An exception it raises is either caught by
\* the code around the call, or propagates: out of the user function into the
\* failure callback of flow.wrapper, or out of the script (exit status 1).
Conclude(r, ans, caught) ==
    /\ caught => r.raised # ""
    /\ calls' = Append(calls,
           [api |-> site.api, at |-> pc, inv |-> Len(runs), key |-> site.key_name,
            client |-> CLIENT, workspace_id |-> WORKSPACE_ID,
            answer |-> IF Triggered(r.io) THEN ans ELSE "none",
            result |-> r.result, raised |-> r.raised, caught |-> caught,
            sent |-> SubSeq(r.io.sent, Len(sent) + 1, Len(r.io.sent)),
            printed |-> SubSeq(r.io.printed, Len(printed) + 1, Len(r.io.printed))])
    /\ IF r.raised = "" \/ caught
       THEN /\ sent' = r.io.sent /\ printed' = r.io.printed
            /\ UNCHANGED <<pc, status, exitCode, runs>>
       ELSE IF pc = "user"
       THEN /\ LET io == FailureCallback(r.io, ExceptionText(r.raised))
               IN  sent' = io.sent /\ printed' = io.printed
            /\ runs' = [runs EXCEPT ![Len(runs)].outcome = "raised",
                                    ![Len(runs)].exc = ExceptionText(r.raised)]
            /\ Exit(Current.caller, 1)
       ELSE /\ sent' = r.io.sent
            /\ printed' = Append(r.io.printed,
                   Line("traceback", "stderr", ExceptionText(r.raised), <<>>))
            /\ Exit("direct", 1)
            /\ UNCHANGED runs

\* The script calls run_flow(flow_name, parameters, scheduled_start).
CallRunFlow ==
    /\ site.api = "run_flow" /\ Callable
    /\ \E ans \in TriggerAnswers, caught \in BOOLEAN :
           Conclude(run_flow(IO(CLIENT), WORKSPACE_ID, site.flow_name,
                             site.parameters, site.scheduled_start, ans),
                    ans, caught)
    /\ UNCHANGED <<entry, blocks, response, group, signature, site, workspace, unreachable,
                   mode, env, CLIENT, LOGGER, WORKSPACE_ID,
                   FlowContext_initialized, contexts, clients, loggers,
                   REGISTERED_FLOWS, AUTO_EXECUTE_SETUP, exitfuncs, envChecks,
                   ops, held>>
    /\ PathCleanup

\* The script calls submit(parameters, scheduled_start) on its first flow.
CallSubmit ==
    /\ site.api = "submit" /\ Callable
    /\ 1 \in DOMAIN REGISTERED_FLOWS
    /\ \E ans \in TriggerAnswers, caught \in BOOLEAN :
           Conclude(submit(IO(CLIENT), WORKSPACE_ID,
                           FlowName(REGISTERED_FLOWS[1].name),
                           site.parameters, site.scheduled_start, ans),
                    ans, caught)
    /\ UNCHANGED <<entry, blocks, response, group, signature, site, workspace, unreachable,
                   mode, env, CLIENT, LOGGER, WORKSPACE_ID,
                   FlowContext_initialized, contexts, clients, loggers,
                   REGISTERED_FLOWS, AUTO_EXECUTE_SETUP, exitfuncs, envChecks,
                   ops, held>>
    /\ PathCleanup

\* The script calls get_block(key_name).
CallGetBlock ==
    /\ site.api = "get_block" /\ Callable
    /\ \E caught \in BOOLEAN :
           LET r == get_block(IO(CLIENT), site.key_name)
           IN  /\ Conclude(r, "none", caught)
               /\ held' = held \cup r.result
    /\ UNCHANGED <<entry, blocks, response, group, signature, site, workspace, unreachable,
                   mode, env, CLIENT, LOGGER, WORKSPACE_ID,
                   FlowContext_initialized, contexts, clients, loggers,
                   REGISTERED_FLOWS, AUTO_EXECUTE_SETUP, exitfuncs, envChecks,
                   ops>>
    /\ PathCleanup

\* The script calls get_run_logger().
CallGetRunLogger ==
    /\ site.api = "get_run_logger" /\ Callable
    /\ \E caught \in BOOLEAN : Conclude(get_run_logger(IO(CLIENT)), "none", caught)
    /\ UNCHANGED <<entry, blocks, response, group, signature, site, workspace, unreachable,
                   mode, env, CLIENT, LOGGER, WORKSPACE_ID,
                   FlowContext_initialized, contexts, clients, loggers,
                   REGISTERED_FLOWS, AUTO_EXECUTE_SETUP, exitfuncs, envChecks,
                   ops, held>>
    /\ PathCleanup

\* ------------------------------------------- triggering flows concurrently
MaxTasks == 3

\* What becomes of one trigger_flow_by_id: a run, None, or an exception.
TaskAnswers == {"created", "none", "raised"}

NoGroup == [tasks |-> <<>>, wire |-> <<>>, results |-> None]

\* client.trigger_flow_by_id(flow_id, parameters=...): a coroutine not yet run
Task(flow_id) == [flow_id |-> flow_id, pc |-> "pending", answer |-> "none"]

\* What the coroutine of a flow ends with under an answer.
trigger_flow_by_id(flow_id, ans) ==
    CASE ans = "created" ->
           [kind |-> "result", value |-> Some([id |-> 10 + flow_id, flow_id |-> flow_id])]
      [] ans = "none" ->
           [kind |-> "result", value |-> None]
      [] ans = "raised" ->
           [kind |-> "exception", value |-> Some([id |-> 0, flow_id |-> flow_id])]

\* asyncio.gather(*tasks): the first exception is raised to the awaiter.
gather_Propagating(tasks, return_exceptions) ==
    LET ends == [i \in DOMAIN tasks |->
                    trigger_flow_by_id(tasks[i].flow_id, tasks[i].answer)]
        failed == {i \in DOMAIN tasks : ends[i].kind = "exception"}
    IN  IF failed = {}
        THEN [raised |-> None, list |-> ends]
        ELSE [raised |-> ends[CHOOSE i \in failed : \A j \in failed : i <= j].value,
              list |-> <<>>]

\* asyncio.gather(*tasks, return_exceptions=...): with return_exceptions the
\* list of what each awaitable ended with, in the order of the awaitables;
\* without, the first exception is raised to the awaiter.
gather(tasks, return_exceptions) ==
    LET ends == [i \in DOMAIN tasks |->
                    trigger_flow_by_id(tasks[i].flow_id, tasks[i].answer)]
        failed == {i \in DOMAIN tasks : ends[i].kind = "exception"}
    IN  IF return_exceptions \/ failed = {}
        THEN [raised |-> None, list |-> ends]
        ELSE [raised |-> ends[CHOOSE i \in failed : \A j \in failed : i <= j].value,
              list |-> <<>>]

\* for flow in flows[:n]: tasks.append(client.trigger_flow_by_id(flow['id'], ...))
CreateTasks(n) ==
    /\ pc = "main" /\ group = NoGroup
    /\ group' = [group EXCEPT !.tasks = [i \in 1..n |-> Task(i)]]
    /\ UNCHANGED lifecycle

\* Task i runs up to its request.
TaskSend(i) ==
    /\ i \in DOMAIN group.tasks /\ group.tasks[i].pc = "pending"
    /\ group' = [group EXCEPT !.tasks[i].pc = "sent",
                              !.wire = Append(@, group.tasks[i].flow_id)]
    /\ UNCHANGED lifecycle

\* Task i ends: with the run created, with None, or with an exception.
TaskEnd(i, ans) ==
    /\ i \in DOMAIN group.tasks /\ group.tasks[i].pc = "sent"
    /\ group' = [group EXCEPT !.tasks[i].pc = "done", !.tasks[i].answer = ans]
    /\ UNCHANGED lifecycle

\* results = await asyncio.gather(*tasks, return_exceptions=True)
Gather ==
    /\ group.tasks # <<>> /\ group.results = None
    /\ \A i \in DOMAIN group.tasks : group.tasks[i].pc = "done"
    /\ group' = [group EXCEPT !.results = Some(gather(group.tasks, TRUE))]
    /\ UNCHANGED lifecycle

\* ---------------------------------------------------------------------- spec
\* The orchestrator departs from the nominal one in one respect at a time:
\* details without a workspace id, or one endpoint out of reach.
Start ==
    /\ workspace \in {None} \cup {Some(i) : i \in WorkspaceIds}
    /\ unreachable \in Outages
    /\ workspace # None \/ unreachable = {}
    /\ mode \in {"script", "launcher"}
    /\ env \in [EnvNames -> EnvValues]
    /\ pc = "main" /\ status = 0 /\ exitCode = None
    /\ CLIENT = None /\ LOGGER = None /\ WORKSPACE_ID = None
    /\ FlowContext_initialized = FALSE
    /\ contexts = 0 /\ clients = 0 /\ loggers = 0
    /\ REGISTERED_FLOWS = <<>> /\ AUTO_EXECUTE_SETUP = FALSE
    /\ exitfuncs = 0 /\ envChecks = 0
    /\ sent = <<>> /\ printed = <<>> /\ runs = <<>>
    /\ ops = 0 /\ held = {}
    /\ calls = <<>>
    /\ group = NoGroup
    /\ sys_path = InitialPath
    /\ blocks = StoredBlocks

\* A script that makes no call of run_flow or submit, and none of get_block
\* outside a user function.
Init ==
    Start /\ entry = NoEntry /\ site = NoSite /\ signature = FixedSlots /\ response = CreatedRun

Next ==
    \/ \E m \in {"__main__", "lib"} : DeclareFlow(m)
    \/ \E n \in 1..MaxFlows : InvokeDirect(n)
    \/ ScriptEnd
    \/ \E l \in Levels, m \in AllMessages : UserLog(l, m)
    \/ \E k \in BlockKeys : UserGetBlock(k)
    \/ UserReturn
    \/ \E e \in UserErrors : UserRaise(e)
    \/ LauncherStart
    \/ LauncherImportError
    \/ \E n \in 1..MaxFlows : LauncherCall(n)
    \/ ExitQuiet
    \/ AutoExecute

Spec == Init /\ [][Next]_vars

\* ------------------------------------------------ scripts that call the SDK
\* The same processes, with one call of run_flow, submit or get_block
\* written in the script, made from a user function or from its top level.
\* Every endpoint is within reach; what varies is the answer to a trigger.
InitCalls ==
    /\ Start /\ entry = NoEntry /\ site \in Sites /\ unreachable = {} /\ signature = FixedSlots
    /\ response = CreatedRun

NextCalls ==
    \/ \E m \in {"__main__", "lib"} : DeclareFlow(m)
    \/ \E n \in 1..MaxFlows : InvokeDirect(n)
    \/ ScriptEnd
    \/ CallRunFlow
    \/ CallSubmit
    \/ CallGetBlock
    \/ CallGetRunLogger
    \/ UserReturn
    \/ \E e \in UserErrors : UserRaise(e)
    \/ LauncherStart
    \/ LauncherImportError
    \/ \E n \in 1..MaxFlows : LauncherCall(n)
    \/ ExitQuiet
    \/ AutoExecute

SpecCalls == InitCalls /\ [][NextCalls]_vars

\* The processes of Spec whose user functions log, return or raise, and
\* fetch no Block.
NextLifecycle ==
    \/ \E m \in {"__main__", "lib"} : DeclareFlow(m)
    \/ \E n \in 1..MaxFlows : InvokeDirect(n)
    \/ ScriptEnd
    \/ \E l \in Levels, m \in AllMessages : UserLog(l, m)
    \/ UserReturn
    \/ \E e \in UserErrors : UserRaise(e)
    \/ LauncherStart
    \/ LauncherImportError
    \/ \E n \in 1..MaxFlows : LauncherCall(n)
    \/ ExitQuiet
    \/ AutoExecute

SpecLifecycle == Init /\ [][NextLifecycle]_vars

\* A script that triggers several flows in one task group.
InitFanOut ==
    /\ Start /\ entry = NoEntry /\ site = NoSite /\ signature = FixedSlots
    /\ mode = "script" /\ unreachable = {} /\ workspace # None
    /\ EnvComplete(env) /\ response = CreatedRun

NextFanOut ==
    \/ \E n \in 1..MaxTasks : CreateTasks(n)
    \/ \E i \in 1..MaxTasks : TaskSend(i)
    \/ \E i \in 1..MaxTasks, ans \in TaskAnswers : TaskEnd(i, ans)
    \/ Gather

SpecFanOut == InitFanOut /\ [][NextFanOut]_vars

\* Launched modules that edit the import search path while being imported.
NextPath ==
    \/ NextLifecycle
    \/ \E op \in PathEdits : ImportEdit(op)

SpecPath == Init /\ [][NextPath]_vars

\* Scripts that trigger a flow with valid arguments, under each answer of
\* the orchestrator.
TriggerSites ==
    {s \in Sites : /\ s.api \in {"run_flow", "submit"}
                   /\ s.flow_name = FlowName(1)
                   /\ s.parameters = PyNone /\ s.scheduled_start = PyNone}

InitRoundTrip ==
    /\ Start /\ entry = NoEntry /\ site \in TriggerSites /\ unreachable = {} /\ signature = FixedSlots
    /\ workspace # None /\ EnvComplete(env)
    /\ response \in Responses

NextRoundTrip ==
    \/ \E m \in {"__main__", "lib"} : DeclareFlow(m)
    \/ \E n \in 1..MaxFlows : InvokeDirect(n)
    \/ ScriptEnd
    \/ CallRunFlow
    \/ CallSubmit
    \/ UserReturn
    \/ \E e \in UserErrors : UserRaise(e)
    \/ LauncherStart
    \/ LauncherImportError
    \/ \E n \in 1..MaxFlows : LauncherCall(n)
    \/ ExitQuiet
    \/ AutoExecute

SpecRoundTrip == InitRoundTrip /\ [][NextRoundTrip]_vars

\* Scripts that trigger a flow in a run whose details carry no workspace id.
InitDeferred ==
    /\ Start /\ entry = NoEntry /\ site \in TriggerSites /\ unreachable = {} /\ signature = FixedSlots
    /\ workspace = None /\ EnvComplete(env)
    /\ response = CreatedRun

SpecDeferred == InitDeferred /\ [][NextRoundTrip]_vars

\* Scripts whose user functions fetch Blocks, while the orchestrator's store
\* may change.
InitBlocks ==
    /\ Init /\ mode = "script" /\ EnvComplete(env) /\ workspace # None
    /\ unreachable \in {{}, {"block"}}

NextBlocks ==
    \/ \E m \in {"__main__", "lib"} : DeclareFlow(m)
    \/ \E n \in 1..MaxFlows : InvokeDirect(n)
    \/ ScriptEnd
    \/ \E k \in BlockKeys : UserGetBlock(k)
    \/ StoreEdit("api-endpoint")
    \/ UserReturn
    \/ ExitQuiet
    \/ AutoExecute

SpecBlocks == InitBlocks /\ [][NextBlocks]_vars

\* The launcher's treatment of the entrypoint, for every entrypoint made of
\* up to MaxSegments names.
InitEntrypoint ==
    /\ Start /\ site = NoSite /\ signature = FixedSlots /\ response = CreatedRun
    /\ mode = "launcher" /\ EnvComplete(env) /\ workspace = None
    /\ unreachable = {}
    /\ entry \in {EntryOf(e) : e \in Entrypoints}

NextEntrypoint ==
    \/ EntrySplit
    \/ EntryTranslate
    \/ EntryImport

SpecEntrypoint == InitEntrypoint /\ [][NextEntrypoint]_vars

\* Scripts whose user functions declare their parameters in one of several
\* ways: the fixed slots, or business parameters of their own.
InitSignatures ==
    /\ Start /\ entry = NoEntry /\ site = NoSite /\ unreachable = {} /\ signature \in Signatures
    /\ response = CreatedRun

SpecSignatures == InitSignatures /\ [][NextLifecycle]_vars

\* ==================================================================== claims
StatusUpdates(i, state) ==
    {j \in DOMAIN sent : /\ sent[j].kind = "status"
                         /\ sent[j].state = state
                         /\ sent[j].inv = i}

\* Status updates of the lifecycle of run i: those of its wrapper and, when
\* the launcher called it, those of execute_lastcron_flow before the call.
Lifecycle(i, state) ==
    StatusUpdates(i, state)
        \cup (IF runs[i].caller = "launcher" THEN StatusUpdates(0, state) ELSE {})

UserCalled == {"user", "returned", "raised"}

C2_FailedAndExitOne ==
    \A i \in DOMAIN runs :
        runs[i].outcome = "raised" =>
            /\ Cardinality(Lifecycle(i, "FAILED")) = 1
            /\ \A j \in Lifecycle(i, "FAILED") :
                   /\ sent[j].exit_code = Some(1)
                   /\ Contains(Val(sent[j].message), runs[i].exc)
            /\ Lifecycle(i, "COMPLETED") = {}
            /\ pc = "exited" => exitCode = Some(1)

\* C3: every call of a flow made with the session in place issues a terminal
\* status update (COMPLETED or FAILED): a call that has not issued one is
\* still inside its user function, and the step in which the user function
\* ends, or a step before it fails, issues the update.
Terminal(i) == StatusUpdates(i, "COMPLETED") \cup StatusUpdates(i, "FAILED") # {}
C3_TerminalReported ==
    \A i \in DOMAIN runs :
        runs[i].session => runs[i].outcome = "user" \/ Terminal(i)

C3_Witness ==
    /\ \E i \in DOMAIN runs : runs[i].outcome = "raised" /\ Terminal(i)
    /\ \E i \in DOMAIN runs : runs[i].outcome = "fetch_error" /\ Terminal(i)

\* C4: at most one terminal status update (COMPLETED or FAILED) is sent in a
\* process, and no status update of any state is sent after it.
TerminalUpdates ==
    {j \in DOMAIN sent : sent[j].kind = "status"
                         /\ sent[j].state \in {"COMPLETED", "FAILED"}}
C4_OneTerminalUpdate ==
    /\ Cardinality(TerminalUpdates) <= 1
    /\ \A j \in TerminalUpdates :
           \A k \in DOMAIN sent : k > j => sent[k].kind # "status"

\* C5: once a flow has run its lifecycle (a FlowContext was constructed), a
\* later call of a flow does not reach its user function and is reported
\* FAILED.
C5_SecondCallRejected ==
    \A i, j \in DOMAIN runs :
        (j < i /\ runs[j].outcome \in UserCalled) =>
            /\ runs[i].outcome \notin UserCalled
            /\ StatusUpdates(i, "FAILED") # {}

\* The Logger's secret denylist.  OrchestratorLogger keeps the client and
\* nothing else: there is no list of secrets, and nothing is ever added.
secrets == {}

SecretsHeld == {b.value : b \in {h \in held : h.is_secret}}

RECURSIVE Masked(_, _)
\* text t with each occurrence of a value of S replaced by the mask
Masked(t, S) ==
    IF t = <<>> THEN <<>>
    ELSE IF \E v \in S : Len(v) <= Len(t) /\ SubSeq(t, 1, Len(v)) = v
    THEN LET v == CHOOSE v \in S : Len(v) <= Len(t) /\ SubSeq(t, 1, Len(v)) = v
         IN  <<"****">> \o Masked(SubSeq(t, Len(v) + 1, Len(t)), S)
    ELSE <<Head(t)>> \o Masked(Tail(t), S)

IsLogLine(l)    == l.kind = "log"
IsLogRequest(r) == r.kind = "log"
\* log lines echoed and log entries forwarded by the step being taken
NewLogLines    == SelectSeq(SubSeq(printed', Len(printed) + 1, Len(printed')), IsLogLine)
NewLogRequests == SelectSeq(SubSeq(sent', Len(sent) + 1, Len(sent')), IsLogRequest)

\* C6: every log line emitted after a secret Block was fetched, local echo and
\* remote entry alike, is the message with each occurrence of the secret value
\* replaced by the mask and nothing else changed (values of non-secret Blocks
\* stay as they are).
C6_SecretsRedacted ==
    [][\A k \in DOMAIN NewLogLines :
           /\ Echoed(NewLogLines[k]) = Masked(NewLogLines[k].arg, SecretsHeld)
           /\ Val(NewLogRequests[k].message) = Masked(NewLogLines[k].arg, SecretsHeld)
      ]_vars

\* C7: whenever user code holds a secret Block returned by get_block, the
\* Block's value is in the Logger's denylist.
C7_RegisteredBeforeReturn ==
    \A b \in held : b.is_secret => b.value \in secrets

\* C8: for every log call the message forwarded to the orchestrator is the
\* message echoed locally, and it contains no secret value fetched before.
C8_UniformRedaction ==
    [][\A k \in DOMAIN NewLogRequests :
           /\ Val(NewLogRequests[k].message) = Echoed(NewLogLines[k])
           /\ \A v \in SecretsHeld : ~Contains(Val(NewLogRequests[k].message), v)
      ]_vars

C10_ConfigurationError ==
    ~EnvComplete(env) =>
        /\ \A i \in DOMAIN runs : runs[i].outcome = "config_error"
        /\ CLIENT = None /\ LOGGER = None /\ clients = 0 /\ contexts = 0
        /\ sent = <<>>

C10_Witness ==
    /\ pc = "exited" /\ exitCode = Some(1)
    /\ \E i \in DOMAIN runs : runs[i].outcome = "config_error"

\* FAILED updates of the launcher's own failure handler about the fetch
BootstrapFailures ==
    {j \in DOMAIN sent : /\ sent[j].kind = "status" /\ sent[j].state = "FAILED"
                         /\ sent[j].inv = 0
                         /\ Contains(Val(sent[j].message), BootstrapError)}

\* C11: when the fetch of the run details fails at the transport level or
\* comes back empty, the user function is not called, one FAILED update with
\* exit_code 1 is sent and no COMPLETED one, and the process ends with a
\* non-zero exit code; the same for the launcher's own fetch.
C11_FetchErrorFatal ==
    /\ \A i \in DOMAIN runs :
           runs[i].outcome = "fetch_error" =>
               /\ Cardinality(StatusUpdates(i, "FAILED")) = 1
               /\ \A j \in StatusUpdates(i, "FAILED") : sent[j].exit_code = Some(1)
               /\ StatusUpdates(i, "COMPLETED") = {}
               /\ pc = "exited" => exitCode # Some(0)
    /\ BootstrapFailures # {} =>
           /\ runs = <<>>
           /\ \A j \in BootstrapFailures : sent[j].exit_code = Some(1)
           /\ pc = "exited" => exitCode # Some(0)

\* ------------------------------------------------- calls of the SDK (claims)
\* The arguments of the call written in the script, by what is wrong with them.
BadName        == site.flow_name \in {<<>>, <<" ", " ">>}
BadParameters  == site.parameters = PyList
PastStart      == site.scheduled_start \in {PyDatetime(Past), PyStr(isoformat(Past))}
Unparseable    == site.scheduled_start = PyStr(<<"soon">>)
BadArguments   == BadName \/ BadParameters \/ PastStart \/ Unparseable

\* Calls made with a session and a workspace id present.
InSession(c) == c.client # None /\ c.workspace_id # None

\* The call logged an error: a line on stderr and an ERROR log entry.
ErrorLogged(c) ==
    /\ \E k \in DOMAIN c.printed :
           c.printed[k].kind = "log" /\ c.printed[k].stream = "stderr"
    /\ \E j \in DOMAIN c.sent :
           c.sent[j].kind = "log" /\ c.sent[j].level = "ERROR"

NoTrigger(c) == \A j \in DOMAIN c.sent : c.sent[j].kind # "trigger"

IsTrigger(c) == c.api \in {"run_flow", "submit"}

\* The call met a lookup or validation failure.
LookupOrValidationFailure(c) ==
    InSession(c) /\ (BadArguments \/ c.answer = "not_found")

\* C13: run_flow and submit raise to their caller only when the session
\* context is missing; a lookup or validation failure is logged and seen by
\* the caller as None.
C13_OnlyContextRaises ==
    \A i \in DOMAIN calls :
        LET c == calls[i]
        IN  IsTrigger(c) =>
                /\ c.raised # "" => ~InSession(c)
                /\ LookupOrValidationFailure(c) =>
                       c.result = None /\ c.raised = "" /\ ErrorLogged(c)

IsTriggerRequest(req) == req.kind = "trigger"

\* What run_flow gives for the arguments, session and orchestrator answer of
\* call c, addressed to the flow by its registered name.
ByName(c) ==
    run_flow([sent |-> <<>>, printed |-> <<>>, client |-> c.client, inv |-> c.inv],
             c.workspace_id, FlowName(REGISTERED_FLOWS[1].name),
             site.parameters, site.scheduled_start,
             IF c.answer = "none" THEN "created" ELSE c.answer)

\* C14: f.submit(parameters, scheduled_start) issues the trigger request and
\* has the result that run_flow(n, parameters, scheduled_start) has for the
\* name n of f, for every input and every answer of the orchestrator, and
\* like it raises nothing when validation or lookup fails.
C14_SubmitAsRunFlow ==
    \A i \in DOMAIN calls :
        LET c == calls[i]
        IN  c.api = "submit" =>
                /\ SelectSeq(c.sent, IsTriggerRequest)
                       = SelectSeq(ByName(c).io.sent, IsTriggerRequest)
                /\ c.result = ByName(c).result
                /\ c.raised = ByName(c).raised

\* C15: a trigger call with a bad name, bad parameters or a bad timestamp made
\* by the user function does not end the user function, and when the user
\* function then returns its run reports COMPLETED with exit code 0 and no
\* FAILED status.
C15_ValidationNonFatal ==
    \A i \in DOMAIN calls :
        LET c == calls[i]
        IN  IsTrigger(c) /\ InSession(c) /\ c.at = "user" /\ BadArguments =>
                /\ c.raised = "" \/ c.caught
                /\ runs[c.inv].outcome # "user" =>
                       \/ /\ runs[c.inv].outcome = "returned"
                          /\ \E j \in StatusUpdates(c.inv, "COMPLETED") :
                                 sent[j].exit_code = Some(0)
                          /\ StatusUpdates(c.inv, "FAILED") = {}
                       \/ /\ runs[c.inv].outcome = "raised"
                          /\ runs[c.inv].exc \in UserErrors

\* A lifecycle established the session before call c was made.
SessionBefore(c) == \E i \in 1..c.inv : runs[i].session

\* C16: get_block called where no lifecycle has established a session fails
\* with the context error and issues no request; called after a lifecycle
\* has established the session it does not fail with the context error.
C16_GetBlockContext ==
    \A i \in DOMAIN calls :
        LET c == calls[i]
        IN  c.api = "get_block" =>
                /\ ~SessionBefore(c) => c.raised = "RuntimeError" /\ c.sent = <<>>
                /\ SessionBefore(c) => c.raised # "RuntimeError"

C16_Witness ==
    \E i \in DOMAIN calls :
        /\ calls[i].api = "get_block" /\ ~SessionBefore(calls[i])
        /\ calls[i].raised = "RuntimeError" /\ sent = <<>>

\* The call asked the orchestrator for a Block by a key it does not know.
NotFound(c) ==
    /\ c.api = "get_block" /\ c.client # None
    /\ \A b \in StoredBlocks : b.key_name # site.key_name
    /\ \E j \in DOMAIN c.sent :
           c.sent[j].kind = "block" /\ c.sent[j].key = site.key_name /\ c.sent[j].ok

\* C17: with a session established, get_block for a key the orchestrator
\* answers not-found for returns None and raises nothing, and no secret is
\* registered: the denylist stays as it was and user code holds no Block.
C17_MissingBlockNone ==
    \A i \in DOMAIN calls :
        NotFound(calls[i]) =>
            /\ calls[i].result = None /\ calls[i].raised = ""
            /\ secrets = {} /\ held = {}

C17_Witness ==
    \E i \in DOMAIN calls :
        NotFound(calls[i]) /\ calls[i].result = None /\ calls[i].at = "user"

\* ------------------------------------------------------ order of a lifecycle
\* Requests for the run details made by invocation i (0: by the launcher).
Fetches(i) == {j \in DOMAIN sent : sent[j].kind = "details" /\ sent[j].inv = i}

TerminalOf(i) == StatusUpdates(i, "COMPLETED") \cup StatusUpdates(i, "FAILED")

\* The fetch of invocation i precedes the call of its user function, whose
\* requests follow it, and the terminal update is sent once the user function
\* has ended, after the fetch.
FetchCallTerminal(i) ==
    /\ runs[i].outcome \in UserCalled => Fetches(i) # {}
    /\ \A j \in DOMAIN sent :
           sent[j].inv = i /\ sent[j].kind \in {"log", "block"} =>
               \A f \in Fetches(i) : f < j
    /\ \A t \in TerminalOf(i) :
           /\ runs[i].outcome # "user"
           /\ \A f \in Fetches(i) : f < t

FailedRunning == {r \in StatusUpdates(0, "RUNNING") : ~sent[r].ok}

\* FAILED updates of the launcher about the import of the user's module.
ImportFailures ==
    {j \in StatusUpdates(0, "FAILED") : Contains(Val(sent[j].message), ImportError)}

\* C19: when the delivery of the RUNNING update fails the run goes on: the
\* run details are fetched after it, the launcher reports a failure of its
\* own only for a fetch that brought no details or for the import, and the
\* terminal update of the flow is the one its fetch and its user function
\* call for.
C19_RunningBestEffort ==
    \A r \in FailedRunning :
        /\ \E f \in Fetches(0) : r < f
        /\ StatusUpdates(0, "FAILED") = BootstrapFailures \cup ImportFailures
        /\ BootstrapFailures # {} =>
               \E f \in Fetches(0) : sent[f].answer # "details"
        /\ \A i \in DOMAIN runs :
               /\ runs[i].outcome = "returned" =>
                      /\ \E j \in StatusUpdates(i, "COMPLETED") :
                             sent[j].exit_code = Some(0)
                      /\ StatusUpdates(i, "FAILED") = {}
               /\ runs[i].outcome \in {"raised", "fetch_error"} =>
                      /\ \E j \in StatusUpdates(i, "FAILED") :
                             sent[j].exit_code = Some(1)
                      /\ StatusUpdates(i, "COMPLETED") = {}

C19_Witness ==
    /\ FailedRunning # {}
    /\ \E i \in DOMAIN runs :
           /\ runs[i].outcome = "returned" /\ Fetches(i) # {}
           /\ StatusUpdates(i, "COMPLETED") # {}

\* Log entries whose delivery failed, and the lines printed about them.
FailedLogs == {j \in DOMAIN sent : sent[j].kind = "log" /\ ~sent[j].ok}
LogErrorsPrinted ==
    {k \in DOMAIN printed :
        /\ printed[k].kind = "comm_error" /\ printed[k].stream = "stderr"
        /\ printed[k].text = <<"API Communication Error to ", "log">>}

\* The terminal update of invocation i is the one its outcome calls for.
TerminalAsOutcome(i) ==
    /\ runs[i].outcome = "returned" =>
           /\ \E j \in StatusUpdates(i, "COMPLETED") : sent[j].exit_code = Some(0)
           /\ StatusUpdates(i, "FAILED") = {}
    /\ runs[i].outcome \in {"raised", "fetch_error"} =>
           /\ \E j \in StatusUpdates(i, "FAILED") : sent[j].exit_code = Some(1)
           /\ StatusUpdates(i, "COMPLETED") = {}
    /\ runs[i].outcome = "user" => TerminalOf(i) = {}

\* C20: a log entry whose delivery fails is reported by a line on stderr,
\* one per failure; the log call returns to its caller, so that a run fails
\* only by an exception of its user function or by its fetch; and the
\* terminal update is the one the outcome of the run calls for.
C20_LogFailureNonFatal ==
    FailedLogs # {} =>
        /\ Cardinality(LogErrorsPrinted) = Cardinality(FailedLogs)
        /\ \A i \in DOMAIN runs :
               /\ runs[i].outcome = "raised" => runs[i].exc \in UserErrors
               /\ TerminalAsOutcome(i)

C20_Witness ==
    \E j \in FailedLogs :
        /\ Val(sent[j].message) \in AllMessages
        /\ sent[j].inv \in DOMAIN runs
        /\ runs[sent[j].inv].outcome = "returned"
        /\ \E t \in StatusUpdates(sent[j].inv, "COMPLETED") : t > j

\* ------------------------------------------------------------ auto-execution
\* Flows declared at module scope of the script, by position in the registry.
MainFlows ==
    {i \in DOMAIN REGISTERED_FLOWS : REGISTERED_FLOWS[i].module = "__main__"}

\* Invocations made by the deferred action.
AtExitRuns == {i \in DOMAIN runs : runs[i].caller = "atexit"}

\* C21: a script with exactly one flow at module scope, all three environment
\* values set and no explicit invocation has, once it has ended, run the full
\* lifecycle of that flow exactly once; where no flow is declared at module
\* scope of the script, none is ever executed automatically.
C21_AutoExecution ==
    /\ mode = "script" /\ pc = "exited" /\ EnvComplete(env)
          /\ Cardinality(MainFlows) = 1 /\ Directs = 0 =>
           /\ Len(runs) = 1
           /\ runs[1].caller = "atexit" /\ runs[1].session
           /\ \A i \in MainFlows : runs[1].flow = REGISTERED_FLOWS[i].name
           /\ Cardinality(Fetches(1)) = 1
           /\ Cardinality(TerminalOf(1)) = 1
    /\ MainFlows = {} => AtExitRuns = {}

C21_Witness ==
    /\ mode = "script" /\ pc = "exited" /\ Cardinality(MainFlows) = 1
    /\ Len(REGISTERED_FLOWS) = 2
    /\ Len(runs) = 1 /\ runs[1].caller = "atexit" /\ runs[1].outcome = "returned"

\* Warnings about several flows in the script.
Warnings == {k \in DOMAIN printed : printed[k].kind = "warning"}

\* C22: with more than one flow declared in the script, the deferred action
\* prints a warning and invokes one flow, the first of them in declaration
\* order, and no other; with one flow it prints no warning.
C22_FirstOfSeveral ==
    /\ Cardinality(AtExitRuns) <= 1
    /\ \A i \in AtExitRuns :
           /\ \E n \in MainFlows :
                  /\ runs[i].flow = REGISTERED_FLOWS[n].name
                  /\ \A k \in MainFlows : n <= k
           /\ Cardinality(Warnings) = (IF Cardinality(MainFlows) > 1 THEN 1 ELSE 0)
           /\ \A k \in Warnings :
                  /\ printed[k].stream = "stderr"
                  /\ printed[k].arg = <<ToString(runs[i].flow)>>
    /\ AtExitRuns = {} => Warnings = {}
    /\ pc = "exited" /\ mode = "script" /\ EnvComplete(env) /\ MainFlows # {} =>
           AtExitRuns # {}

C22_Witness ==
    /\ Cardinality(MainFlows) = 2 /\ pc = "exited"
    /\ \E i \in AtExitRuns : runs[i].flow = REGISTERED_FLOWS[1].name
    /\ Warnings # {}

\* C23: the environment is checked at the first declaration only and at most
\* one deferred action is registered, that one exactly when the three values
\* are present; where one is absent nothing is registered, and the process
\* sends no request and runs no user function.
C23_DetectorOnce ==
    /\ envChecks = (IF REGISTERED_FLOWS = <<>> THEN 0 ELSE 1)
    /\ exitfuncs = (IF REGISTERED_FLOWS # <<>> /\ EnvComplete(env) THEN 1 ELSE 0)
    /\ ~EnvComplete(env) =>
           /\ AtExitRuns = {}
           /\ sent = <<>>
           /\ \A i \in DOMAIN runs : runs[i].outcome \notin UserCalled

C23_Witness ==
    /\ Len(REGISTERED_FLOWS) = 2 /\ envChecks = 1 /\ exitfuncs = 1
    /\ pc = "exited"

\* ------------------------------------------------------- calling conventions
\* The runs whose wrapper got as far as calling the user function.
CallAttempts == {i \in DOMAIN runs : runs[i].outcome \in UserCalled \cup {"arg_error"}}

DeclaresSlots    == Slots \subseteq signature.names
DeclaresBusiness == signature.names # {} /\ signature.names \cap Slots = {}

\* RunParameters spread over the parameters a function declares
Spread(names) == [n \in names \cap DOMAIN RunParameters |-> RunParameters[n]]

\* C24 (as stated): a user function declaring the four fixed slots is called
\* with the parameters, blocks, logger and workspace id of the fetched run
\* details; a user function declaring business parameters of its own is called
\* without an argument error, and its parameters receive the entries of the
\* run's parameters mapping.
C24_CallingConventions ==
    \A i \in CallAttempts :
        /\ DeclaresSlots =>
              /\ runs[i].outcome \in UserCalled
              /\ Val(runs[i].args).named.parameters = RunParameters
              /\ Val(runs[i].args).named.blocks = RunBlocks
              /\ Val(runs[i].args).named.logger # None
              /\ Val(runs[i].args).named.workspace_id = workspace
        /\ DeclaresBusiness =>
              /\ runs[i].outcome \in UserCalled
              /\ Val(runs[i].args).named = Spread(signature.names)

\* The part of C24 the wrapper does provide: the fixed slots.
C24_FixedSlotsOnly ==
    \A i \in CallAttempts :
        DeclaresSlots =>
              /\ runs[i].outcome \in UserCalled
              /\ Val(runs[i].args).named = flow_kwargs(Val(runs[i].args).named.logger, workspace)
\* ------------------------------------------------------------ get_run_logger
LoggerCalls == {k \in DOMAIN calls : calls[k].api = "get_run_logger"}

\* C25 (as stated): get_run_logger called from inside a running user
\* function, that is after the lifecycle constructed the FlowContext, returns
\* the logger of the run; called before any lifecycle has started, it raises
\* the context error.
C25_RunLogger ==
    \A k \in LoggerCalls :
        /\ calls[k].at = "user" /\ runs[calls[k].inv].session =>
              calls[k].raised = "" /\ calls[k].result # None
        /\ calls[k].inv = 0 => calls[k].raised = "RuntimeError"

\* The half that holds: before any lifecycle, the context error.
C25_BeforeLifecycle ==
    \A k \in LoggerCalls : calls[k].inv = 0 => calls[k].raised = "RuntimeError"
\* ------------------------------------------------------------------- fan-out
Results == Val(group.results)

ErrorLines(p) == {k \in DOMAIN p : p[k].stream = "stderr" /\ p[k].kind # "warning"}

FailedRequests(kind) == {j \in DOMAIN sent : sent[j].kind = kind /\ ~sent[j].ok}
CommErrors(kind) ==
    {k \in DOMAIN printed :
        /\ printed[k].kind = "comm_error" /\ printed[k].stream = "stderr"
        /\ printed[k].text = <<"API Communication Error to ", kind>>}

\* A trigger made with a session that gave its caller no run.
FailedTrigger(c) == IsTrigger(c) /\ InSession(c) /\ c.result = None

\* The call printed an error line before it ended, or raised an exception
\* nobody caught, which is reported on stderr before the process exits.
ErrorPrinted(c) ==
    \/ ErrorLines(c.printed) # {}
    \/ c.raised # "" /\ ~c.caught /\ ErrorLines(printed) # {}

FailedRuns == {i \in DOMAIN runs : runs[i].outcome \notin {"user", "returned"}}

\* Every request that failed in transport has its line on stderr; every run
\* that ended in a failure, and every process that exits with a failure,
\* has printed an error line.
TransportAndRunErrorsPrinted ==
    /\ \A j \in DOMAIN sent :
           Cardinality(FailedRequests(sent[j].kind)) = Cardinality(CommErrors(sent[j].kind))
    /\ FailedRuns # {} => ErrorLines(printed) # {}
    /\ exitCode \notin {None, Some(0)} => ErrorLines(printed) # {}

\* C27 (as stated): no error is dropped without a word.  A request that
\* fails in transport, a run that fails, a process that exits with a failure
\* each leave a line on stderr; and a trigger by run_flow or submit that gives
\* its caller no run has printed an error line by the time the call ends, or
\* by the time the process exits when the call raised and nobody caught it.
C27_NoSilentError ==
    /\ TransportAndRunErrorsPrinted
    /\ \A i \in DOMAIN calls :
           FailedTrigger(calls[i]) => ErrorPrinted(calls[i])

\* C27 without submit: what holds of the code.
C27_ExceptSubmit ==
    /\ TransportAndRunErrorsPrinted
    /\ \A i \in DOMAIN calls :
           FailedTrigger(calls[i]) /\ calls[i].api = "run_flow" =>
               ErrorPrinted(calls[i])
\* ------------------------------------------------------ launcher exit codes
Completed == \E i \in DOMAIN runs : runs[i].outcome = "returned"

\* C28: the launcher started without one of the three values exits with
\* code 128, having built no client and sent no request; started with all
\* three it exits with 0 when the flow ran to its normal end and with 1
\* otherwise.
C28_LauncherExitCodes ==
    mode = "launcher" /\ pc = "exited" =>
        IF ~EnvComplete(env)
        THEN exitCode = Some(128) /\ clients = 0 /\ sent = <<>> /\ runs = <<>>
        ELSE /\ exitCode \in {Some(0), Some(1)}
             /\ exitCode = Some(0) <=> Completed

C28_Witness ==
    /\ mode = "launcher" /\ pc = "exited" /\ EnvComplete(env)
    /\ exitCode = Some(1) /\ sent # <<>>
    /\ \E i \in DOMAIN runs : runs[i].outcome = "raised"

C28_WitnessMissing ==
    mode = "launcher" /\ pc = "exited" /\ exitCode = Some(128)
\* --------------------------------------------------------- import search path
\* execute_lastcron_flow has been called and has ended.
LauncherEnded ==
    mode = "launcher" /\ EnvComplete(env) /\ pc \in {"atexit", "exited"}

\* C29 (as stated): once execute_lastcron_flow has ended, by return or by
\* the failure exit, the import search path is what it was before the call,
\* whatever the imported module did to it.
C29_PathRestored ==
    LauncherEnded => sys_path = InitialPath

\* ---------------------------------------------------------------- round trip
\* The triggers the orchestrator answered with a run.
Created == {k \in DOMAIN calls : IsTrigger(calls[k]) /\ calls[k].answer = "created"}

DirectRuns == {i \in DOMAIN runs : runs[i].caller = "direct"}

\* C31 (as stated): a flow the script has invoked itself, whether that
\* invocation went through or failed and left the process, is not run again
\* by the exit-time hook: the hook does not call the user function of that
\* flow and sends no terminal status for it.
C31_AtMostOnce ==
    \A i \in DirectRuns : \A j \in AtExitRuns :
        runs[i].flow = runs[j].flow /\ runs[i].session =>
            /\ runs[j].outcome \notin UserCalled
            /\ TerminalOf(j) = {}
\* ------------------------------------------------------------ reporting order
\* Log entries of invocation i sent before request j.
LogsBefore(i, j) ==
    {k \in 1..(j - 1) : sent[k].kind = "log" /\ sent[k].inv = i}

\* The exception text a FAILED update of the wrapper carries.
Reported(j) == SubSeq(Val(sent[j].message), 2, Len(Val(sent[j].message)))

\* Runs the wrapper ended with its failure callback.
WrapperFailures ==
    {i \in DOMAIN runs : runs[i].session /\ runs[i].outcome \notin {"user", "returned"}}

\* C32: the COMPLETED update of a lifecycle comes after its success log
\* entry; the FAILED update of a lifecycle comes after an ERROR log entry
\* with the exception message and the trace; and a lifecycle that has failed
\* has sent its FAILED update by the time the process is on its way out.
C32_ReportingOrder ==
    /\ \A i \in DOMAIN runs :
          /\ \A j \in StatusUpdates(i, "COMPLETED") :
                 \E k \in LogsBefore(i, j) :
                     /\ sent[k].level = "INFO"
                     /\ sent[k].message = Some(<<"Flow finished execution successfully.">>)
          /\ \A j \in StatusUpdates(i, "FAILED") :
                 \E k \in LogsBefore(i, j) :
                     /\ sent[k].level = "ERROR"
                     /\ sent[k].message =
                            Some(<<"Flow execution failed. Error: ">> \o Reported(j)
                                     \o <<"\n", "<traceback>">>)
    /\ \A i \in WrapperFailures :
          /\ StatusUpdates(i, "FAILED") # {}
          /\ i = Len(runs) => pc \in {"atexit", "exited"}

C32_Witness ==
    /\ Len(runs) = 2 /\ pc = "exited"
    /\ runs[1].outcome = "returned" /\ runs[2].outcome = "raised"
    /\ StatusUpdates(1, "COMPLETED") # {} /\ StatusUpdates(2, "FAILED") # {}
\* ------------------------------------------- exit code of the exit-time hook
\* C33 (as stated): a process whose flow was started by the exit-time hook
\* and whose user function raised ends with a non-zero exit code.
C33_AutoExecFailureExitCode ==
    \A i \in AtExitRuns :
        runs[i].outcome = "raised" /\ pc = "exited" =>
            exitCode # None /\ exitCode # Some(0)

\* The same failure under a call by the script itself.
C33_DirectFailureExitCode ==
    \A i \in DirectRuns :
        runs[i].outcome = "raised" /\ pc = "exited" => exitCode = Some(1)
\* ------------------------------------------------- failures under the launcher
ErrorLogs(i) ==
    {k \in DOMAIN sent : sent[k].kind = "log" /\ sent[k].level = "ERROR" /\ sent[k].inv = i}

\* C34: a failure inside the lifecycle of a flow the launcher called is
\* reported once: the wrapper sends one ERROR log entry and one FAILED
\* update and ends the process with exit code 1; the launcher's own handler
\* adds no FAILED update and no ERROR log entry.
C34_ReportedOnce ==
    mode = "launcher" =>
        \A i \in WrapperFailures :
            /\ Cardinality(StatusUpdates(i, "FAILED")) = 1
            /\ Cardinality(ErrorLogs(i)) = 1
            /\ StatusUpdates(0, "FAILED") = {} /\ ErrorLogs(0) = {}
            /\ pc \in {"atexit", "exited"} /\ status = 1
            /\ pc = "exited" => exitCode = Some(1)

C34_Witness ==
    /\ mode = "launcher" /\ pc = "exited" /\ exitCode = Some(1)
    /\ \E i \in WrapperFailures :
           runs[i].outcome = "raised" /\ runs[i].caller = "launcher"
\* ----------------------------------------------- failing before the call
\* The step being taken is an invocation of the wrapper that fails on the
\* fetch of the run details or at the re-entry guard.
FailsBeforeCall ==
    /\ Len(runs') = Len(runs) + 1
    /\ runs'[Len(runs')].outcome \in {"fetch_error", "reentry"}

FetchedDetails(i) == \E j \in Fetches(i) : Fetched(sent[j].answer)

\* C36: when the run details carry no workspace id the lifecycle goes on
\* and calls the user function; a call of run_flow or submit made from it
\* raises the context error to its caller, returns nothing and sends no
\* request; and when the user function lets the error escape, the run is
\* reported FAILED.
C36_DeferredWorkspaceFailure ==
    workspace = None =>
        /\ \A i \in DOMAIN runs :
               FetchedDetails(i) => runs[i].outcome \in UserCalled
        /\ \A k \in DOMAIN calls :
               LET c == calls[k]
               IN  IsTrigger(c) /\ c.at = "user" =>
                       /\ c.workspace_id = None
                       /\ c.raised = "RuntimeError" /\ c.result = None
                       /\ c.sent = <<>>
                       /\ ~c.caught =>
                              /\ runs[c.inv].outcome = "raised"
                              /\ Cardinality(StatusUpdates(c.inv, "FAILED")) = 1
                              /\ StatusUpdates(c.inv, "COMPLETED") = {}

C36_Witness ==
    /\ workspace = None /\ pc = "exited"
    /\ \E k \in DOMAIN calls :
           /\ calls[k].api = "submit" /\ calls[k].at = "user"
           /\ calls[k].raised = "RuntimeError" /\ ~calls[k].caught
           /\ StatusUpdates(calls[k].inv, "FAILED") # {}
\* -------------------------------------------------------- get_block is live
\* Calls of get_block made with a session established.
BlockCalls ==
    {k \in DOMAIN calls : calls[k].api = "get_block" /\ calls[k].client # None}

BlockRequests == {j \in DOMAIN sent : sent[j].kind = "block"}

\* C37: every call of get_block(key) made with a session issues one fetch
\* by key, for the key asked and under the session of the process, and
\* returns what the orchestrator answered that request with; so there are
\* as many requests as calls, whatever was fetched before.
C37_NoLocalCache ==
    /\ \A k \in BlockCalls :
          LET c == calls[k]
          IN  /\ Len(c.sent) = 1
              /\ c.sent[1].kind = "block" /\ c.sent[1].key = c.key
              /\ c.sent[1].client = c.client
              /\ c.raised = "" /\ c.result = c.sent[1].answer
    /\ Cardinality(BlockRequests) = Cardinality(BlockCalls)

\* Two calls with the same key, answered differently.
C37_Witness ==
    /\ Cardinality(BlockCalls) = 2 /\ Cardinality(BlockRequests) = 2
    /\ calls[1].key = "api-endpoint" /\ calls[2].key = "api-endpoint"
    /\ calls[1].result # calls[2].result /\ calls[2].result # None

\* ---------------------------------------------------------------------- C38
\* The text before the colon and the text after it.
PathOf(entrypoint) ==
    SubSeq(entrypoint, 1,
           (CHOOSE i \in 1..Len(entrypoint) : entrypoint[i] = ":") - 1)
NameOf(entrypoint) ==
    SubSeq(entrypoint,
           (CHOOSE i \in 1..Len(entrypoint) : entrypoint[i] = ":") + 1,
           Len(entrypoint))

\* The dotted name of a path: the extension at its end dropped, each
\* separator turned into a dot, every other character kept.
DottedName(path) ==
    LET stem == SubSeq(path, 1, Len(path) - Len(Extension))
    IN  [i \in 1..Len(stem) |-> IF stem[i] = "/" THEN "." ELSE stem[i]]

\* C38: for every entrypoint "<module-path>:<function-name>" the launcher
\* imports the module whose dotted name is the module path with each path
\* separator replaced by a dot and only the trailing extension removed, no
\* other part of the path altered, and calls the attribute function-name.
C38_EntrypointTranslation ==
    entry.pc = "called" =>
        /\ entry.imported = DottedName(PathOf(entry.entrypoint))
        /\ entry.called = NameOf(entry.entrypoint)

\* A name of the path begins with "py" after a separator: the dotted text
\* holds ".py" before its end.
InnerExtension(path) ==
    \E i \in 1..(Len(path) - Len(Extension)) :
        /\ path[i] \in {"/", "."}
        /\ StartsWith(SubSeq(path, i + 1, Len(path)), <<"p", "y">>)

\* The translation is the one stated for every path in which ".py" occurs
\* at the end only, and the attribute called is always the one named.
C38_PlainPaths ==
    entry.pc = "called" =>
        /\ entry.called = NameOf(entry.entrypoint)
        /\ ~InnerExtension(PathOf(entry.entrypoint)) =>
               entry.imported = DottedName(PathOf(entry.entrypoint))

\* A path with such a name loses it: f/pyf/f.py is imported as ff.
C38_Witness ==
    /\ entry.pc = "called"
    /\ entry.entrypoint =
          <<"f", "/", "p", "y", "f", "/", "f", ".", "p", "y", ":", "g", "o">>
    /\ entry.imported = <<"f", "f", ".", "f">>

====
